---- MODULE Spec2Model ----
(***************************************************************************)
(* A model of the gemini agent: the agentic loop (Agent.processMessage,    *)
(* Agent.agenticLoop, Agent.summarizeToolCalls, generateContentWithRetry,  *)
(* withTimeout), the tool executor (createToolExecutor), the settings      *)
(* store (SettingsManager) and the session history (HistoryManager).       *)
(* Spec is the agent as a whole; SpecTools is the executor under arbitrary  *)
(* calls; SpecCompact is the context check on arbitrary conversations;     *)
(* SpecGate is the permission gate under arbitrary settings and batches;   *)
(* SpecHistory is the HistoryManager under arbitrary calls; SpecPlan is    *)
(* two processes, one after the other, under the same boundary and user,   *)
(* with plan mode switched freely; SpecSession is the agent whose caller   *)
(* also resumes and clears the current session; SpecSettings is the        *)
(* SettingsManager under arbitrary calls; SpecFibonacci is the example     *)
(* project's Fibonacci.fibonacci, in both copies the repository holds,     *)
(* on arbitrary arguments.                                                 *)
(*                                                                         *)
(* Strings are sequences of tokens.  A token is a one-character string, a  *)
(* whole fixed message such as "File not found: ", or the token Block,     *)
(* which stands for BlockChars filler characters that hold no newline and  *)
(* match no search string.  StrLen gives the length in characters.         *)
(***************************************************************************)
EXTENDS Integers, Sequences, FiniteSets, TLC

\* ------------------------------------------------------------- constants
MAX_HOPS == 25
API_TIMEOUT_MS == 600000
MAX_CONTEXT_CHARS == 100000
COMMAND_TIMEOUT_MS == 60000
MaxRetries == 3
SleepMs == 60000
DefaultLines == 100
MinToolMessages == 4

\* ---------------------------------------------------------------- bounds
\* user messages handed to processMessage in one run
MaxMessages == 2
\* completion-boundary behaviours (an answer, a failure, a timeout) chosen
\* freely in one run; afterwards the boundary behaves as its tail says
MaxChoices == 2
\* permission decisions chosen freely; afterwards the user repeats the last
MaxDecisions == 2
\* sessions created in one run
MaxSessions == 1
\* filler characters one Block token stands for
BlockChars == 60000
\* turns of a conversation handed to the context check alone
MaxTurns == 6
\* sessions created, and messages stored in a session, under the history's
\* operations alone
MaxHistorySessions == 3
MaxStored == 2
\* the arguments of a call of fibonacci: MinN .. MaxN
MinN == 0 - 3
MaxN == 96

\* --------------------------------------------------------------- strings
Block == "#"
NL == "\n"

TokLen(t) == IF t = Block THEN BlockChars ELSE Len(t)

RECURSIVE StrLen(_)
StrLen(s) == IF s = <<>> THEN 0 ELSE TokLen(Head(s)) + StrLen(Tail(s))

Min(a, b) == IF a < b THEN a ELSE b
Max(a, b) == IF a > b THEN a ELSE b

\* s.slice(from, to) on 0-based indices already clamped to 0..Len(s)
Slice(s, from, to) == IF to <= from THEN <<>> ELSE SubSeq(s, from + 1, to)

\* the 0-based positions at which sub occurs in s
Occurrences(s, sub) ==
    {i \in 0..(Len(s) - Len(sub)) : Slice(s, i, i + Len(sub)) = sub}

\* String.prototype.includes
Includes(s, sub) == Occurrences(s, sub) # {}

\* String.prototype.indexOf, -1 when absent
IndexOf(s, sub) ==
    IF Includes(s, sub)
    THEN CHOOSE i \in Occurrences(s, sub) : \A j \in Occurrences(s, sub) : i <= j
    ELSE -1

\* The replacement text String.prototype.replace builds from newString for a
\* string pattern: "$$" is "$", "$&" the match, "$`" the text before the
\* match, "$'" the text after it; any other "$" is literal.
RECURSIVE Expand(_, _, _, _)
Expand(new, matched, before, after) ==
    IF new = <<>> THEN <<>>
    ELSE IF Head(new) = "$" /\ Len(new) >= 2 /\ new[2] \in {"$", "&", "`", "'"}
         THEN (CASE new[2] = "$" -> <<"$">>
                 [] new[2] = "&" -> matched
                 [] new[2] = "`" -> before
                 [] new[2] = "'" -> after)
              \o Expand(Tail(Tail(new)), matched, before, after)
         ELSE <<Head(new)>> \o Expand(Tail(new), matched, before, after)

\* content.replace(oldString, newString): the first occurrence only
ReplaceFirst(s, old, new) ==
    LET i == IndexOf(s, old) IN
    IF i < 0 THEN s
    ELSE LET before == Slice(s, 0, i)
             after == Slice(s, i + Len(old), Len(s))
         IN before \o Expand(new, old, before, after) \o after

\* content.split('\n'): always at least one piece
RECURSIVE SplitLines(_)
SplitLines(s) ==
    LET i == IndexOf(s, <<NL>>) IN
    IF i < 0 THEN <<s>>
    ELSE <<Slice(s, 0, i)>> \o SplitLines(Slice(s, i + 1, Len(s)))

\* lines.join('\n')
RECURSIVE JoinLines(_)
JoinLines(ls) ==
    IF ls = <<>> THEN <<>>
    ELSE IF Len(ls) = 1 THEN ls[1]
    ELSE ls[1] \o <<NL>> \o JoinLines(Tail(ls))

\* Array.prototype.slice(start, end) with JavaScript's index normalisation
ClampIndex(k, n) == IF k < 0 THEN Max(n + k, 0) ELSE Min(k, n)
ArraySlice(a, start, end) ==
    Slice(a, ClampIndex(start, Len(a)), ClampIndex(end, Len(a)))
ArraySliceFrom(a, start) == Slice(a, ClampIndex(start, Len(a)), Len(a))

\* ------------------------------------------------------ paths (POSIX)
\* A path string is [abs, segs]: "/etc/x" is [abs |-> TRUE, segs |->
\* <<"etc", "x">>], "../a" is [abs |-> FALSE, segs |-> <<"..", "a">>].
\* A resolved path is the sequence of its segments below "/".
P(abs, segs) == [abs |-> abs, segs |-> segs]

\* the root directory the executor is created with: path.resolve(projectDir)
projectRoot == <<"proj">>

\* file names that begin with the two characters ".."
DotDotNames == {"..", "..foo"}

RECURSIVE Normalize(_, _)
Normalize(acc, segs) ==
    IF segs = <<>> THEN acc
    ELSE LET h == Head(segs) IN
         IF h = "." THEN Normalize(acc, Tail(segs))
         ELSE IF h = ".."
              THEN Normalize(IF acc = <<>> THEN <<>> ELSE SubSeq(acc, 1, Len(acc) - 1),
                             Tail(segs))
              ELSE Normalize(Append(acc, h), Tail(segs))

\* path.resolve(projectRoot, relativePath)
PathResolve(root, p) ==
    IF p.abs THEN Normalize(<<>>, p.segs) ELSE Normalize(root, p.segs)

CommonPrefixLen(a, b) ==
    LET n == Min(Len(a), Len(b))
        same == {k \in 0..n : \A i \in 1..k : a[i] = b[i]}
    IN CHOOSE k \in same : \A j \in same : j <= k

\* path.relative(from, to) of two resolved paths, as a sequence of segments
PathRelative(from, to) ==
    LET c == CommonPrefixLen(from, to) IN
    [i \in 1..(Len(from) - c) |-> ".."] \o SubSeq(to, c + 1, Len(to))

\* rel.startsWith('..'); path.isAbsolute(rel) is never true of a POSIX
\* relative path
Escapes(rel) == rel # <<>> /\ Head(rel) \in DotDotNames

IsInside(root, q) == Len(q) >= Len(root) /\ SubSeq(q, 1, Len(root)) = root

\* resolvePath without the test of rel: a faulty variant that C6 must detect
resolvePathUnchecked(p) == [ok |-> TRUE, path |-> PathResolve(projectRoot, p)]

\* resolvePath: [ok |-> FALSE] models the thrown 'Path traversal not allowed'
resolvePath(p) ==
    LET resolved == PathResolve(projectRoot, p)
        rel == PathRelative(projectRoot, resolved)
    IN IF Escapes(rel) THEN [ok |-> FALSE, path |-> <<>>]
       ELSE [ok |-> TRUE, path |-> resolved]

\* the text of a path argument, as `${args.path}` prints it
RECURSIVE SegsText(_)
SegsText(segs) ==
    IF segs = <<>> THEN <<>>
    ELSE IF Len(segs) = 1 THEN <<segs[1]>>
    ELSE <<segs[1], "/">> \o SegsText(Tail(segs))
PathText(p) == (IF p.abs THEN <<"/">> ELSE <<>>) \o SegsText(p.segs)

\* ---------------------------------------------------------- file system
\* A file system maps the resolved paths that exist to nodes; "/" (<<>>)
\* always exists.  No symbolic links.
FileNode(c) == [kind |-> "file", content |-> c]
DirNode == [kind |-> "dir", content |-> <<>>]

Exists(fs, q) == q \in DOMAIN fs
IsDir(fs, q) == Exists(fs, q) /\ fs[q].kind = "dir"
IsFile(fs, q) == Exists(fs, q) /\ fs[q].kind = "file"
Dirname(q) == IF q = <<>> THEN <<>> ELSE SubSeq(q, 1, Len(q) - 1)
Prefixes(q) == {SubSeq(q, 1, k) : k \in 0..Len(q)}
Put(fs, q, node) == [x \in DOMAIN fs \cup {q} |-> IF x = q THEN node ELSE fs[x]]

\* fs.readFileSync(q, 'utf-8'): throws on a directory
CanRead(fs, q) == IsFile(fs, q)

\* fs.mkdirSync(q, {recursive: true}): throws when a component is a file
CanMkdir(fs, q) == \A x \in Prefixes(q) : ~IsFile(fs, x)
Mkdir(fs, q) ==
    [x \in DOMAIN fs \cup Prefixes(q) |-> IF x \in DOMAIN fs THEN fs[x] ELSE DirNode]

\* fs.writeFileSync(q, c): throws when q is a directory or its parent is none
CanWrite(fs, q) == ~IsDir(fs, q) /\ IsDir(fs, Dirname(q)) /\ q # <<>>

\* fs.readdirSync(q): the names of the direct children, in name order
Children(fs, q) == {x \in DOMAIN fs : Len(x) = Len(q) + 1 /\ Dirname(x) = q}

\* ------------------------------------------------------------- executor
\* An argument mapping is a function from the keys present to their values.
\* The accessors give what the executor's coercion makes of an argument:
\* String(undefined) is "undefined", Number(undefined) is NaN (0 here: both
\* are falsy), Boolean(undefined) is false.
NoArgs == [k \in {} |-> 0]
ArgPath(args) == IF "path" \in DOMAIN args THEN args.path ELSE P(FALSE, <<"undefined">>)
ArgContent(args) == IF "content" \in DOMAIN args THEN args.content ELSE <<"undefined">>
ArgLines(args) == IF "lines" \in DOMAIN args THEN args.lines ELSE 0
ArgRecursive(args) == IF "recursive" \in DOMAIN args THEN args.recursive ELSE FALSE
ArgCommand(args) == IF "command" \in DOMAIN args THEN args.command ELSE "undefined"
ArgOldString(args) ==
    IF "old_string" \in DOMAIN args THEN args.old_string ELSE <<"undefined">>
ArgNewString(args) ==
    IF "new_string" \in DOMAIN args THEN args.new_string ELSE <<"undefined">>

\* ToolResult {output?, error?}
\* Out as {output: s || undefined}: a faulty variant that C17 must detect
OutIfTruthy(s) ==
    [hasOutput |-> s # <<>>, output |-> s, hasError |-> FALSE, error |-> <<>>]

Out(s) == [hasOutput |-> TRUE, output |-> s, hasError |-> FALSE, error |-> <<>>]

Err(s) == [hasOutput |-> FALSE, output |-> <<>>, hasError |-> TRUE, error |-> s]

\* what one execution did: its result, the file system it leaves, and the
\* resolved paths it read (content or entries), wrote (created or changed)
\* and probed (existsSync)
Done(result, fs, reads, writes, probes) ==
    [result |-> result, fs |-> fs, reads |-> reads, writes |-> writes,
     probes |-> probes]

\* String(err) of the error resolvePath throws, and of a file-system fault
TraversalError == <<"Error: Path traversal not allowed">>
FsError == <<"Error: file system error">>

\* a tool body left by an exception whose String(err) is s
Thrown(s) ==
    [hasOutput |-> FALSE, output |-> <<>>, hasError |-> FALSE, error |-> s,
     thrown |-> TRUE]
IsThrown(result) == "thrown" \in DOMAIN result

\* TryCatch without the catch block: a faulty variant that C15 must detect
TryRethrows(done) == done

\* try { ... } catch (err) { return { error: String(err) } }
TryCatch(done) ==
    IF IsThrown(done.result) THEN [done EXCEPT !.result = Err(done.result.error)]
    ELSE done

readFile(args, fs) ==
    TryCatch(
    LET r == resolvePath(ArgPath(args)) q == r.path IN
    IF ~r.ok THEN Done(Thrown(TraversalError), fs, {}, {}, {})
    ELSE IF ~Exists(fs, q)
         THEN Done(Err(<<"File not found: ">> \o PathText(ArgPath(args))), fs, {}, {}, {q})
    ELSE IF ~CanRead(fs, q) THEN Done(Thrown(FsError), fs, {}, {}, {q})
    ELSE Done(Out(fs[q].content), fs, {q}, {}, {q}))

\* writeFile with fs.appendFileSync in place of fs.writeFileSync: a faulty
\* variant that C25 must detect
writeFileAppends(args, fs) ==
    TryCatch(
    LET r == resolvePath(ArgPath(args)) q == r.path dir == Dirname(q) IN
    IF ~r.ok THEN Done(Thrown(TraversalError), fs, {}, {}, {})
    ELSE IF ~Exists(fs, dir) /\ ~CanMkdir(fs, dir)
         THEN Done(Thrown(FsError), fs, {}, {}, {dir})
    ELSE LET fs1 == IF Exists(fs, dir) THEN fs ELSE Mkdir(fs, dir)
             made == DOMAIN fs1 \ DOMAIN fs
             old == IF IsFile(fs1, q) THEN fs1[q].content ELSE <<>>
         IN IF ~CanWrite(fs1, q) THEN Done(Thrown(FsError), fs1, {}, made, {dir})
            ELSE Done(Out(<<"File written: ">> \o PathText(ArgPath(args))),
                      Put(fs1, q, FileNode(old \o ArgContent(args))), {}, made \cup {q},
                      {dir}))

writeFile(args, fs) ==
    TryCatch(
    LET r == resolvePath(ArgPath(args)) q == r.path dir == Dirname(q) IN
    IF ~r.ok THEN Done(Thrown(TraversalError), fs, {}, {}, {})
    ELSE IF ~Exists(fs, dir) /\ ~CanMkdir(fs, dir)
         THEN Done(Thrown(FsError), fs, {}, {}, {dir})
    ELSE LET fs1 == IF Exists(fs, dir) THEN fs ELSE Mkdir(fs, dir)
             made == DOMAIN fs1 \ DOMAIN fs
         IN IF ~CanWrite(fs1, q) THEN Done(Thrown(FsError), fs1, {}, made, {dir})
            ELSE Done(Out(<<"File written: ">> \o PathText(ArgPath(args))),
                      Put(fs1, q, FileNode(ArgContent(args))), {}, made \cup {q}, {dir}))

\* Number(ArgLines(args)) || 100
LineCount(args) == IF ArgLines(args) = 0 THEN DefaultLines ELSE ArgLines(args)

headFile(args, fs) ==
    TryCatch(
    LET r == resolvePath(ArgPath(args)) q == r.path IN
    IF ~r.ok THEN Done(Thrown(TraversalError), fs, {}, {}, {})
    ELSE IF ~Exists(fs, q)
         THEN Done(Err(<<"File not found: ">> \o PathText(ArgPath(args))), fs, {}, {}, {q})
    ELSE IF ~CanRead(fs, q) THEN Done(Thrown(FsError), fs, {}, {}, {q})
    ELSE Done(Out(JoinLines(ArraySlice(SplitLines(fs[q].content), 0, LineCount(args)))),
              fs, {q}, {}, {q}))

tailFile(args, fs) ==
    TryCatch(
    LET r == resolvePath(ArgPath(args)) q == r.path IN
    IF ~r.ok THEN Done(Thrown(TraversalError), fs, {}, {}, {})
    ELSE IF ~Exists(fs, q)
         THEN Done(Err(<<"File not found: ">> \o PathText(ArgPath(args))), fs, {}, {}, {q})
    ELSE IF ~CanRead(fs, q) THEN Done(Thrown(FsError), fs, {}, {}, {q})
    ELSE Done(Out(JoinLines(ArraySliceFrom(SplitLines(fs[q].content), -LineCount(args)))),
              fs, {q}, {}, {q}))

\* the order readdirSync returns names in
NameOrder ==
    <<"..foo", "a.txt", "b.txt", "big.txt", "c.txt", "d", "e", "etc", "new",
      "new.txt", "proj", "undefined", "x">>
NameRank(n) == CHOOSE i \in 1..Len(NameOrder) : NameOrder[i] = n

\* the paths of a set, in the order of their last names
RECURSIVE InNameOrder(_)
InNameOrder(S) ==
    IF S = {} THEN <<>>
    ELSE LET x == CHOOSE y \in S :
                    \A z \in S : NameRank(y[Len(y)]) <= NameRank(z[Len(z)])
         IN <<x>> \o InNameOrder(S \ {x})

\* listRecursive(p, prefix): the display lines, each a string
RECURSIVE listRecursive(_, _, _, _)
RECURSIVE listEntries(_, _, _, _)
listEntries(entries, prefix, recursive, fs) ==
    IF entries = <<>> THEN <<>>
    ELSE LET e == Head(entries)
             displayPath == prefix \o <<e[Len(e)]>>
             here == IF IsDir(fs, e)
                     THEN <<displayPath \o <<"/">>>> \o
                          (IF recursive
                           THEN listRecursive(e, displayPath \o <<"/">>, recursive, fs)
                           ELSE <<>>)
                     ELSE <<displayPath>>
         IN here \o listEntries(Tail(entries), prefix, recursive, fs)
listRecursive(q, prefix, recursive, fs) ==
    listEntries(InNameOrder(Children(fs, q)), prefix, recursive, fs)

\* the directories readdirSync is called on
ListedDirs(q, recursive, fs) ==
    IF recursive THEN {x \in DOMAIN fs : IsDir(fs, x) /\ IsInside(q, x)} ELSE {q}

\* listDir without the sentinel: a faulty variant that C30 must detect
listDirNoSentinel(args, fs) ==
    TryCatch(
    LET r == resolvePath(ArgPath(args)) q == r.path IN
    IF ~r.ok THEN Done(Thrown(TraversalError), fs, {}, {}, {})
    ELSE IF ~Exists(fs, q)
         THEN Done(Err(<<"Directory not found: ">> \o PathText(ArgPath(args))), fs, {}, {}, {q})
    ELSE IF ~IsDir(fs, q) THEN Done(Thrown(FsError), fs, {}, {}, {q})
    ELSE Done(Out(JoinLines(listRecursive(q, <<>>, ArgRecursive(args), fs))),
              fs, ListedDirs(q, ArgRecursive(args), fs), {}, {q}))

listDir(args, fs) ==
    TryCatch(
    LET r == resolvePath(ArgPath(args)) q == r.path IN
    IF ~r.ok THEN Done(Thrown(TraversalError), fs, {}, {}, {})
    ELSE IF ~Exists(fs, q)
         THEN Done(Err(<<"Directory not found: ">> \o PathText(ArgPath(args))), fs, {}, {}, {q})
    ELSE IF ~IsDir(fs, q) THEN Done(Thrown(FsError), fs, {}, {}, {q})
    ELSE LET items == JoinLines(listRecursive(q, <<>>, ArgRecursive(args), fs)) IN
         Done(Out(IF items = <<>> THEN <<"(empty directory)">> ELSE items),
              fs, ListedDirs(q, ArgRecursive(args), fs), {}, {q}))

\* What execSync does with a command: the shell is outside the model, so each
\* command name stands for one outcome.  status "ok" is exit code 0; "fail"
\* is a non-zero exit and "timeout" the COMMAND_TIMEOUT_MS kill, both thrown
\* by execSync with the captured stdout, stderr and a message.
ShellOutcome(command) ==
    CASE command = "echo hi" ->
           [status |-> "ok", stdout |-> <<"h", "i", NL>>, stderr |-> <<>>, message |-> <<>>]
      [] command = "true" ->
           [status |-> "ok", stdout |-> <<>>, stderr |-> <<>>, message |-> <<>>]
      [] command = "exit 1" ->
           [status |-> "fail", stdout |-> <<>>, stderr |-> <<>>,
            message |-> <<"Command failed: exit 1">>]
      [] command = "ls nope" ->
           [status |-> "fail", stdout |-> <<>>, stderr |-> <<"n", "o", NL>>,
            message |-> <<"Command failed: ls nope">>]
      [] command = "yes" ->
           [status |-> "timeout", stdout |-> <<"y", NL>>, stderr |-> <<>>,
            message |-> <<"spawnSync /bin/sh ETIMEDOUT">>]
      [] OTHER ->
           [status |-> "fail", stdout |-> <<>>, stderr |-> <<"not found">>,
            message |-> <<"Command failed: ">>]

\* runCommand that always answers with the failure message alone: a faulty
\* variant that C29 must detect
runCommandMessageOnly(args, fs) ==
    LET sh == ShellOutcome(ArgCommand(args)) IN
    IF sh.status = "ok"
    THEN Done(Out(IF sh.stdout = <<>> THEN <<"(no output)">> ELSE sh.stdout), fs, {}, {}, {})
    ELSE Done(Err(<<"Command failed: ">> \o sh.message), fs, {}, {}, {})

runCommand(args, fs) ==
    LET sh == ShellOutcome(ArgCommand(args)) IN
    IF sh.status = "ok"
    THEN Done(Out(IF sh.stdout = <<>> THEN <<"(no output)">> ELSE sh.stdout), fs, {}, {}, {})
    ELSE IF sh.stdout # <<>> \/ sh.stderr # <<>>
         THEN Done(Err(<<"Command failed", NL, "stdout:", NL>> \o sh.stdout
                       \o <<NL, "stderr:", NL>> \o sh.stderr), fs, {}, {}, {})
         ELSE Done(Err(<<"Command failed: ">> \o sh.message), fs, {}, {}, {})

\* editFile that writes new_string to the file when old_string is not found:
\* a faulty variant that C28 must detect
editFileWritesAnyway(args, fs) ==
    TryCatch(
    LET r == resolvePath(ArgPath(args)) q == r.path IN
    IF ~r.ok THEN Done(Thrown(TraversalError), fs, {}, {}, {})
    ELSE IF ~Exists(fs, q)
         THEN Done(Err(<<"File not found: ">> \o PathText(ArgPath(args))), fs, {}, {}, {q})
    ELSE IF ~CanRead(fs, q) THEN Done(Thrown(FsError), fs, {}, {}, {q})
    ELSE IF ~Includes(fs[q].content, ArgOldString(args))
         THEN Done(Err(<<"String not found in file: \"">>
                       \o Slice(ArgOldString(args), 0, Min(50, Len(ArgOldString(args))))
                       \o <<"...\"">>),
                   Put(fs, q, FileNode(ArgNewString(args))), {q}, {q}, {q})
    ELSE Done(Out(<<"File edited: ">> \o PathText(ArgPath(args))),
              Put(fs, q, FileNode(ReplaceFirst(fs[q].content, ArgOldString(args),
                                              ArgNewString(args)))),
              {q}, {q}, {q}))

editFile(args, fs) ==
    TryCatch(
    LET r == resolvePath(ArgPath(args)) q == r.path IN
    IF ~r.ok THEN Done(Thrown(TraversalError), fs, {}, {}, {})
    ELSE IF ~Exists(fs, q)
         THEN Done(Err(<<"File not found: ">> \o PathText(ArgPath(args))), fs, {}, {}, {q})
    ELSE IF ~CanRead(fs, q) THEN Done(Thrown(FsError), fs, {}, {}, {q})
    ELSE IF ~Includes(fs[q].content, ArgOldString(args))
         THEN Done(Err(<<"String not found in file: \"">>
                       \o Slice(ArgOldString(args), 0, Min(50, Len(ArgOldString(args))))
                       \o <<"...\"">>), fs, {q}, {}, {q})
    ELSE Done(Out(<<"File edited: ">> \o PathText(ArgPath(args))),
              Put(fs, q, FileNode(ReplaceFirst(fs[q].content, ArgOldString(args),
                                              ArgNewString(args)))),
              {q}, {q}, {q}))

\* executeTool handing every other name to the shell: a faulty variant that
\* C16 must detect
executeToolShellDefault(name, args, fs) ==
    CASE name = "read_file" -> readFile(args, fs)
      [] name = "write_file" -> writeFile(args, fs)
      [] name = "head_file" -> headFile(args, fs)
      [] name = "tail_file" -> tailFile(args, fs)
      [] name = "list_dir" -> listDir(args, fs)
      [] name = "edit_file" -> editFile(args, fs)
      [] OTHER -> runCommand(args, fs)

\* switch (name) { ... default: return { error: `Unknown tool: ${name}` } }
executeTool(name, args, fs) ==
    CASE name = "read_file" -> readFile(args, fs)
      [] name = "write_file" -> writeFile(args, fs)
      [] name = "head_file" -> headFile(args, fs)
      [] name = "tail_file" -> tailFile(args, fs)
      [] name = "list_dir" -> listDir(args, fs)
      [] name = "run_command" -> runCommand(args, fs)
      [] name = "edit_file" -> editFile(args, fs)
      [] OTHER -> Done(Err(<<"Unknown tool: ", name>>), fs, {}, {}, {})

\* --------------------------------------------------------- action catalog
ToolNames ==
    {"read_file", "write_file", "head_file", "tail_file", "list_dir", "run_command",
     "edit_file"}

\* a gate that keeps one permission record for each tool: a faulty variant
\* that C32 must detect
PermissionKeyPerTool(toolName) == toolName

\* TOOL_PERMISSIONS[toolName] ?? toolName
PermissionKey(toolName) ==
    CASE toolName \in {"read_file", "head_file", "tail_file"} -> "read_file"
      [] toolName \in {"write_file", "edit_file"} -> "write_file"
      [] toolName = "list_dir" -> "list_dir"
      [] toolName = "run_command" -> "run_command"
      [] OTHER -> toolName

\* getToolDescription(name, args): the one-line text shown with the prompt
getToolDescription(name, args) ==
    CASE name = "read_file" -> <<"Read file: ">> \o PathText(ArgPath(args))
      [] name = "write_file" -> <<"Write file: ">> \o PathText(ArgPath(args))
      [] name = "head_file" -> <<"Read first ", ToString(LineCount(args)), " lines of: ">>
                               \o PathText(ArgPath(args))
      [] name = "tail_file" -> <<"Read last ", ToString(LineCount(args)), " lines of: ">>
                               \o PathText(ArgPath(args))
      [] name = "list_dir" -> <<"List directory: ">> \o PathText(ArgPath(args))
                              \o (IF ArgRecursive(args) THEN <<" (recursive)">> ELSE <<>>)
      [] name = "run_command" -> <<"Run command: ", ArgCommand(args)>>
      [] name = "edit_file" -> <<"Edit file: ">> \o PathText(ArgPath(args))
      [] OTHER -> <<"Unknown tool: ", name>>

\* ----------------------------------------------------------- conversation
\* Content {role, parts}; a part is text, a functionCall {name, args} or a
\* functionResponse {name, response: {error} | {result}}.
TextPart(s) == [type |-> "text", text |-> s]
CallPart(fc) == [type |-> "functionCall", name |-> fc.name, args |-> fc.args]
RespPart(name, key, value) ==
    [type |-> "functionResponse", name |-> name, key |-> key, text |-> value]
Turn(role, parts) == [role |-> role, parts |-> parts]
TextTurn(role, s) == Turn(role, <<TextPart(s)>>)

\* JSON.stringify(string).length: the quotes, and one more character for
\* each newline token
JsonStrLen(s) ==
    2 + StrLen(s) + Cardinality({i \in 1..Len(s) : s[i] = NL})

DigitsLen(n) == IF n < 0 THEN 2 ELSE IF n < 10 THEN 1 ELSE IF n < 100 THEN 2 ELSE 3

\* JSON.stringify(args).length: braces, "key":value for each key present,
\* commas between them
ArgsJsonLen(args) ==
    LET g == DOMAIN args
        n == Cardinality(g)
        item(k, v) == IF k \in g THEN Len(k) + 3 + v ELSE 0
    IN 2 + (IF n > 0 THEN n - 1 ELSE 0)
       + item("path", JsonStrLen(PathText(ArgPath(args))))
       + item("content", JsonStrLen(ArgContent(args)))
       + item("lines", DigitsLen(ArgLines(args)))
       + item("recursive", IF ArgRecursive(args) THEN 4 ELSE 5)
       + item("command", Len(ArgCommand(args)) + 2)
       + item("old_string", JsonStrLen(ArgOldString(args)))
       + item("new_string", JsonStrLen(ArgNewString(args)))

\* JSON.stringify(part.functionCall).length: {"name":"..","args":{..}}
CallJsonLen(part) == 19 + Len(part.name) + ArgsJsonLen(part.args)

\* JSON.stringify(part.functionResponse).length:
\* {"name":"..","response":{"error":".."}}
RespJsonLen(part) == 28 + Len(part.name) + Len(part.key) + JsonStrLen(part.text)

PartSize(part) ==
    CASE part.type = "text" -> StrLen(part.text)
      [] part.type = "functionCall" -> CallJsonLen(part)
      [] part.type = "functionResponse" -> RespJsonLen(part)

RECURSIVE PartsSizeFrom(_, _)
PartsSizeFrom(parts, i) ==
    IF i > Len(parts) THEN 0 ELSE PartSize(parts[i]) + PartsSizeFrom(parts, i + 1)

\* the total of the messages from..to, summed by halves so that a long
\* conversation is not a deep recursion
RECURSIVE SizeBetween(_, _, _)
SizeBetween(contents, from, to) ==
    IF from > to THEN 0
    ELSE IF from = to THEN PartsSizeFrom(contents[from].parts, 1)
    ELSE LET mid == (from + to) \div 2
         IN SizeBetween(contents, from, mid) + SizeBetween(contents, mid + 1, to)

SizeFrom(contents, i) == SizeBetween(contents, i, Len(contents))

\* the sum, over all parts of all messages, of text.length,
\* JSON.stringify(functionCall).length and JSON.stringify(functionResponse).length
calculateContentSize(contents) == SizeFrom(contents, 1)

\* (msg.parts ?? []).some(p => p.functionCall || p.functionResponse)
hasToolCall(msg) ==
    \E i \in 1..Len(msg.parts) :
        msg.parts[i].type \in {"functionCall", "functionResponse"}

toolCallIndices(contents) == {i \in 1..Len(contents) : hasToolCall(contents[i])}

\* SkipsSummary without the test of the length: a faulty variant that C7 must
\* detect
SkipsSummaryNever(contents) == FALSE

\* toolCallMessages.length < 4: summarizeToolCalls returns contents as it is
SkipsSummary(contents) == Cardinality(toolCallIndices(contents)) < MinToolMessages

\* summaryResponse.text ?? 'Tool calls were performed.', wrapped
summaryContent(summary) ==
    TextTurn("user", <<"[Previous tool calls summary: ">> \o summary \o <<"]">>)

\* summaryResponse.text ?? 'Tool calls were performed.': the texts a summary
\* request may give
Summaries == {<<"S">>, <<"Tool calls were performed.">>}

\* the loop of summarizeToolCalls that builds result, from index i on
RECURSIVE SpliceFrom(_, _, _, _, _)
SpliceFrom(contents, i, result, summaryAdded, sc) ==
    LET idxs == toolCallIndices(contents)
        last == CHOOSE k \in idxs : \A j \in idxs : j <= k
    IN IF i > Len(contents)
       THEN IF ~summaryAdded THEN Append(result, sc) ELSE result
       ELSE IF i \notin idxs
            THEN IF ~summaryAdded /\ idxs # {} /\ i > last
                 THEN SpliceFrom(contents, i + 1, result \o <<sc, contents[i]>>, TRUE, sc)
                 ELSE SpliceFrom(contents, i + 1, Append(result, contents[i]),
                                 summaryAdded, sc)
            ELSE SpliceFrom(contents, i + 1, result, summaryAdded, sc)

\* summarizeToolCalls that adds the summary and keeps the tool messages: a
\* faulty variant that C8 must detect
summarizeKeepsToolCalls(contents, summary) ==
    IF Cardinality(toolCallIndices(contents)) < MinToolMessages THEN contents
    ELSE Append(contents, summaryContent(summary))

\* summarizeToolCalls that puts the summary after every plain message: a
\* faulty variant that C23 must detect
summarizeAppendsSummary(contents, summary) ==
    IF SkipsSummary(contents) THEN contents
    ELSE Append(SelectSeq(contents, LAMBDA m : \A p \in 1..Len(m.parts) :
                                                  m.parts[p].type = "text"),
                summaryContent(summary))

\* summarizeToolCalls(contents), given the text the summary request returns
summarizeToolCalls(contents, summary) ==
    IF SkipsSummary(contents) THEN contents
    ELSE SpliceFrom(contents, 1, <<>>, FALSE, summaryContent(summary))

\* ------------------------------------------------------- settings store
\* isAllowed as perm?.mode !== 'ask': a faulty variant that C14 must detect
isAllowedUnlessAsk(permissions, tool) ==
    tool \notin DOMAIN permissions \/ permissions[tool] # "ask"

\* settings.permissions: the records present, each with its mode;
\* const perm = this.getPermission(tool); return perm?.mode === 'allow'
isAllowed(permissions, tool) ==
    tool \in DOMAIN permissions /\ permissions[tool] = "allow"

setPermission(permissions, tool, mode) ==
    [k \in DOMAIN permissions \cup {tool} |-> IF k = tool THEN mode ELSE permissions[k]]

NoPermissions == [k \in {} |-> "ask"]

\* -------------------------------------------------------- session history
\* history.sessions is a sequence of sessions; current is the index of the
\* current session, 0 for null.
NewSession(n) == [id |-> n, messages |-> <<>>]

getMessages(sessions, current) ==
    IF current = 0 THEN <<>> ELSE sessions[current].messages

\* an addMessage that falls back on the last session when none is current:
\* a faulty variant that C38 must detect
addMessageToLast(sessions, current, message) ==
    IF current = 0
    THEN IF Len(sessions) = 0 THEN sessions
         ELSE [sessions EXCEPT ![Len(sessions)].messages = Append(@, message)]
    ELSE [sessions EXCEPT ![current].messages = Append(@, message)]

addMessage(sessions, current, message) ==
    IF current = 0 THEN sessions
    ELSE [sessions EXCEPT ![current].messages = Append(@, message)]

\* a compaction whose result is not stored in the session: a faulty variant
\* that C37 must detect
setCurrentSessionMessagesNowhere(sessions, current, messages) == sessions

setCurrentSessionMessages(sessions, current, messages) ==
    IF current = 0 THEN sessions
    ELSE [sessions EXCEPT ![current].messages = messages]

\* createSession(): the new session is current and pushed, the history saved
createSession(sessions) ==
    [sessions |-> Append(sessions, NewSession(Len(sessions) + 1)),
     current |-> Len(sessions) + 1]

\* getLastSession(): the last session of the list, or null (0) without one
getLastSession(sessions) ==
    IF Len(sessions) = 0 THEN 0 ELSE Len(sessions)

\* a resume that takes the first session of the list: a faulty variant that
\* C33 must detect
resumeFirstSession(sessions, current) ==
    IF getLastSession(sessions) # 0 THEN 1 ELSE current

\* resumeLastSession(): the last session becomes current when there is one
resumeLastSession(sessions, current) ==
    IF getLastSession(sessions) # 0 THEN getLastSession(sessions) ELSE current

\* clearCurrentSession(): this.currentSession = null
clearCurrentSession(sessions, current) == 0

\* the history file after addMessage or setCurrentSessionMessages: save()
\* writes the history as it is, and is called only if a session is current
save(sessions, current, disk) == IF current = 0 THEN disk ELSE sessions

\* ------------------------------------------------------------ environment
\* The requests the completion boundary may return in this model.
Call(name, args) == [name |-> name, args |-> args]

wrA == Call("write_file", [path |-> P(FALSE, <<"a.txt">>), content |-> <<"f", "o", "o">>])
edA == Call("edit_file", [path |-> P(FALSE, <<"a.txt">>), old_string |-> <<"f", "o", "o">>,
                          new_string |-> <<"b", "a", "r">>])
rdBig == Call("read_file", [path |-> P(FALSE, <<"big.txt">>)])
hdBig == Call("head_file", [path |-> P(FALSE, <<"big.txt">>)])
runExit1 == Call("run_command", [command |-> "exit 1"])
bogus == Call("bogus", NoArgs)

\* a response: no function calls and a text, or function calls with or
\* without candidates[0].content
Final(text) == [calls |-> <<>>, content |-> FALSE, hasText |-> TRUE, text |-> text]
Batch(calls, content) ==
    [calls |-> calls, content |-> content, hasText |-> FALSE, text |-> <<>>]
\* a response without function calls whose text is undefined
Silent == [calls |-> <<>>, content |-> FALSE, hasText |-> FALSE, text |-> <<>>]

Responses ==
    { Final(<<"answer">>),
      Silent,
      Batch(<<wrA, edA>>, TRUE),
      Batch(<<rdBig, hdBig>>, TRUE),
      Batch(<<bogus, runExit1>>, FALSE) }

\* An error the completion boundary throws: error.status, error.error.code
\* and error.message (a sequence of tokens).
ApiError(status, code, message) == [status |-> status, code |-> code, message |-> message]

Status429 == ApiError(429, 0, <<"Too Many Requests">>)
Errors ==
    { Status429,
      ApiError(0, 429, <<"quota exceeded">>),
      ApiError(0, 0, <<"got status: ", "429", " Too Many Requests">>),
      ApiError(0, 0, <<"RESOURCE_EXHAUSTED", ": quota exceeded">>),
      ApiError(500, 0, <<"Internal error">>) }

\* isRateLimit of generateContentWithRetry's catch block
isRateLimit(error) ==
    \/ error.status = 429
    \/ Includes(error.message, <<"429">>)
    \/ error.code = 429
    \/ Includes(error.message, <<"RESOURCE_EXHAUSTED">>)

\* What the boundary does once no free choice is left.  A boundary that
\* answers ends every later request with the final answer; a runaway
\* boundary requests the same function calls at every request; a limited
\* boundary fails every request with a rate-limit error.  The first and the
\* last kind make free choices before.
AnswersTail == [kind |-> "respond", resp |-> Final(<<"answer">>), error |-> Status429]
Tails ==
    {[kind |-> "respond", resp |-> r, error |-> Status429] : r \in Responses}
    \cup {[kind |-> "fail", resp |-> Final(<<>>), error |-> Status429]}

\* PermissionResponse {granted, alwaysAllow}
Decisions == [granted : BOOLEAN, alwaysAllow : BOOLEAN]

\* the file system the run starts with
InitialFs ==
    (<<>> :> DirNode) @@ (<<"proj">> :> DirNode) @@ (<<"etc">> :> DirNode)
    @@ (<<"etc", "x">> :> FileNode(<<"s">>))
    @@ (<<"proj", "big.txt">> :> FileNode(<<Block>>))
    @@ (<<"proj", "a.txt">> :> FileNode(<<>>))
    @@ (<<"proj", "e">> :> DirNode)

\* ------------------------------------------------------------------ state
VARIABLES
    pc,               \* where the agent is: idle, loop, await, summarize, dispatch, prompt
    msgs,             \* processMessage invocations so far
    hops,             \* agenticLoop's hops
    currentContents,  \* agenticLoop's currentContents
    aliased,          \* currentContents and the session's messages are one array
    response,         \* the response of the hop's request
    funcCalls,        \* response.functionCalls of the hop
    idx,              \* position of the for loop in funcCalls
    call,             \* the awaited generateContentWithRetry: phase and attempt
    orphan,           \* a generateContentWithRetry whose withTimeout lost the race
    requests,         \* generateContent requests issued for this invocation
    lateRequests,     \* those issued after its timeout surfaced
    outcome,          \* how the last processMessage ended
    gate,             \* the last permission decision of the loop
    exec,             \* the last invocation of the executor
    sessions,         \* history.sessions
    current,          \* history.currentSession
    saved,            \* the history file as save() last wrote it
    permissions,      \* settings.permissions
    fs,               \* the file system
    choices,          \* boundary behaviours chosen freely so far
    tail,             \* what the boundary does once no choice is left
    decisions,        \* permission decisions chosen freely so far
    lastDecision,     \* the user's last decision
    planMode,         \* Agent.planMode
    systemInstruction,\* config.systemInstruction of the last request issued
    baseline,         \* the state an earlier process on the same project ended in
    model,            \* SettingsManager's settings.model
    fibCall           \* a call of the example project's fibonacci(n)

vars ==
    <<pc, msgs, hops, currentContents, aliased, response, funcCalls, idx, call, orphan,
      requests, lateRequests, outcome, gate, exec, sessions, current, saved, permissions,
      fs, choices, tail, decisions, lastDecision, planMode, systemInstruction, baseline,
      model, fibCall>>

loopVars == <<hops, currentContents, aliased, response, funcCalls, idx>>
callVars == <<call, orphan, requests, systemInstruction, lateRequests>>
storeVars == <<sessions, current, saved, permissions, fs>>
envVars == <<choices, tail, decisions, lastDecision, planMode, baseline, model, fibCall>>

NoCall == [phase |-> "none", attempt |-> 0]
\* no response received yet
NoResponse == Silent
NoDecision == [granted |-> FALSE, alwaysAllow |-> FALSE]
NoGate ==
    [msg |-> 0, hop |-> 0, idx |-> 0, name |-> "", key |-> "", description |-> <<>>,
     hasPermission |-> FALSE, prompted |-> FALSE, decision |-> NoDecision]
NoExec ==
    [msg |-> 0, hop |-> 0, idx |-> 0, name |-> "", args |-> NoArgs, result |-> Out(<<>>),
     reads |-> {}, writes |-> {}, changed |-> {}, probes |-> {}]
NoOutcome == [kind |-> "none", value |-> <<>>]

\* the system instruction texts, and the one a request carries:
\* this.planMode ? SYSTEM_INSTRUCTION + PLAN_SYSTEM_ADDITION : SYSTEM_INSTRUCTION;
\* the summary request carries none
SYSTEM_INSTRUCTION == <<"SYSTEM_INSTRUCTION">>
PLAN_SYSTEM_ADDITION == <<"PLAN_SYSTEM_ADDITION">>
NoInstruction == <<>>
SystemInstructionOf(mode) ==
    IF mode THEN SYSTEM_INSTRUCTION \o PLAN_SYSTEM_ADDITION ELSE SYSTEM_INSTRUCTION

\* no earlier process
NoBaseline == [taken |-> FALSE, state |-> <<>>, instruction |-> NoInstruction]

\* types.ts: DEFAULT_MODEL
DEFAULT_MODEL == "gemini-3-flash-preview"

\* no call of fibonacci(n) is under way
NoFibCall ==
    [copy |-> "none", n |-> 0, at |-> "none", i |-> 0, fib |-> <<>>, prevFib |-> <<>>,
     done |-> FALSE, threw |-> FALSE, value |-> <<>>]

\* the state after construction, but for pc, currentContents, the settings
\* file found and the boundary
Start ==
    /\ msgs = 0
    /\ hops = 0
    /\ aliased = FALSE
    /\ response = NoResponse
    /\ funcCalls = <<>>
    /\ idx = 0
    /\ call = NoCall
    /\ orphan = NoCall
    /\ requests = 0
    /\ lateRequests = 0
    /\ outcome = NoOutcome
    /\ gate = NoGate
    /\ exec = NoExec
    /\ sessions = <<>>
    /\ current = 0
    /\ saved = <<>>
    /\ fs = InitialFs
    /\ decisions = 0
    /\ lastDecision = NoDecision
    /\ planMode = FALSE
    /\ systemInstruction = NoInstruction
    /\ baseline = NoBaseline
    /\ model = DEFAULT_MODEL
    /\ fibCall = NoFibCall

Init ==
    /\ pc = "idle"
    /\ currentContents = <<>>
    /\ tail \in Tails
    /\ choices = IF tail = AnswersTail \/ tail.kind = "fail" THEN 0 ELSE MaxChoices
    /\ permissions = NoPermissions
    /\ Start

\* ---------------------------------------------------------------- helpers
\* history.addMessage(m); currentContents.push(m): two pushes, onto one array
\* when setCurrentSessionMessages has made the session hold currentContents
\* addMessage saves after its push, the second push is not saved.
PushBoth(contents, sess, cur, shared, m, disk) ==
    IF shared
    THEN [contents |-> contents \o <<m, m>>,
          sessions |-> [sess EXCEPT ![cur].messages = contents \o <<m, m>>],
          saved |-> [sess EXCEPT ![cur].messages = Append(contents, m)]]
    ELSE [contents |-> Append(contents, m), sessions |-> addMessage(sess, cur, m),
          saved |-> save(addMessage(sess, cur, m), cur, disk)]

\* a behaviour of the completion boundary: chosen freely while the bound
\* allows, the tail behaviour afterwards
Behaves(kind) ==
    /\ IF choices < MaxChoices
       THEN choices' = choices + 1
       ELSE kind = tail.kind /\ UNCHANGED choices
    /\ UNCHANGED <<tail, planMode, baseline, model, fibCall>>

\* the boundary fails a request with error e
Fails(e) == Behaves("fail") /\ (choices = MaxChoices => e = tail.error)

\* generateContentWithRetry issues a request (attempt 0 of a new call)
NewCall == [phase |-> "request", attempt |-> 0]

\* generateContentWithRetry caught error at attempt and awaits sleep(60000)
Sleeping(attempt, error) ==
    [phase |-> "sleep", attempt |-> attempt, error |-> error, ms |-> SleepMs]

\* processMessage returns value: the model turn is added to the history
Return(value) ==
    /\ pc' = "idle"
    /\ outcome' = [kind |-> "returned", value |-> value]
    /\ sessions' = addMessage(sessions, current, TextTurn("model", value))
    /\ saved' = save(sessions', current, saved)
    /\ currentContents' = <<>>
    /\ aliased' = FALSE
    /\ funcCalls' = <<>>
    /\ idx' = 0
    /\ call' = NoCall

\* a processMessage that empties the current session when it throws: a
\* faulty variant that C24 must detect
ThrowClearsSession(error) ==
    /\ pc' = "idle"
    /\ outcome' = [kind |-> "threw", value |-> error]
    /\ currentContents' = <<>>
    /\ aliased' = FALSE
    /\ funcCalls' = <<>>
    /\ idx' = 0
    /\ call' = NoCall
    /\ sessions' = setCurrentSessionMessages(sessions, current, <<>>)
    /\ saved' = save(sessions', current, saved)

\* processMessage throws error: nothing more is added
Throw(error) ==
    /\ pc' = "idle"
    /\ outcome' = [kind |-> "threw", value |-> error]
    /\ currentContents' = <<>>
    /\ aliased' = FALSE
    /\ funcCalls' = <<>>
    /\ idx' = 0
    /\ call' = NoCall
    /\ UNCHANGED <<sessions, saved>>

NoResponseMessage == <<"No response from agent.">>
ExhaustedMessage == <<"Maximum iterations reached. Please try a more specific request.">>
TimeoutMessage == <<"API request timed out after 600 seconds">>
SummaryTimeoutMessage == <<"Summarization timed out">>
DeniedMessage == <<"Permission denied by user">>

\* responseText without the fallback: a faulty variant that C12 must detect
responseTextRaw(r) == r.text

\* response.text ?? 'No response from agent.'
responseText(r) == IF r.hasText THEN r.text ELSE NoResponseMessage

\* ---------------------------------------------------------------- actions
\* history.createSession()
CreateSession ==
    /\ pc = "idle"
    /\ Len(sessions) < MaxSessions
    /\ sessions' = createSession(sessions).sessions
    /\ current' = createSession(sessions).current
    /\ saved' = sessions'
    /\ UNCHANGED <<pc, msgs, loopVars, callVars, outcome, gate, exec, permissions, fs, envVars>>

\* ProcessMessage with a hop counter kept across invocations: a faulty variant
\* that C20 must detect
ProcessMessageKeepsHops ==
    /\ pc = "idle"
    /\ msgs < MaxMessages
    /\ msgs' = msgs + 1
    /\ sessions' = addMessage(sessions, current,
                              TextTurn("user", <<"message ", ToString(msgs + 1)>>))
    /\ saved' = save(sessions', current, saved)
    /\ currentContents' = getMessages(sessions', current)
    /\ aliased' = FALSE
    /\ hops' = hops
    /\ response' = NoResponse
    /\ funcCalls' = <<>>
    /\ idx' = 0
    /\ pc' = "loop"
    /\ call' = NoCall
    /\ orphan' = NoCall
    /\ requests' = 0
    /\ systemInstruction' = NoInstruction
    /\ lateRequests' = 0
    /\ outcome' = NoOutcome
    /\ UNCHANGED <<gate, exec, current, permissions, fs, envVars>>

\* processMessage(userMessage) up to the first test of the while loop
ProcessMessage ==
    /\ pc = "idle"
    /\ msgs < MaxMessages
    /\ msgs' = msgs + 1
    /\ sessions' = addMessage(sessions, current,
                              TextTurn("user", <<"message ", ToString(msgs + 1)>>))
    /\ saved' = save(sessions', current, saved)
    /\ currentContents' = getMessages(sessions', current)
    /\ aliased' = FALSE
    /\ hops' = 0
    /\ response' = NoResponse
    /\ funcCalls' = <<>>
    /\ idx' = 0
    /\ pc' = "loop"
    /\ call' = NoCall
    /\ orphan' = NoCall
    /\ requests' = 0
    /\ systemInstruction' = NoInstruction
    /\ lateRequests' = 0
    /\ outcome' = NoOutcome
    /\ UNCHANGED <<gate, exec, current, permissions, fs, envVars>>

\* while (hops < MAX_HOPS) fails: the exhaustion message is returned
LoopExhausted ==
    /\ pc = "loop"
    /\ ~(hops < MAX_HOPS)
    /\ Return(ExhaustedMessage)
    /\ UNCHANGED <<msgs, hops, response, orphan, requests, systemInstruction, lateRequests, gate, exec, current,
                   permissions, fs, envVars>>

\* LoopCall without the test hops < MAX_HOPS: a faulty variant that C2 must
\* detect
LoopCallUnbounded ==
    /\ pc = "loop"
    /\ ~(calculateContentSize(currentContents) > MAX_CONTEXT_CHARS)
    /\ hops' = hops + 1
    /\ pc' = "await"
    /\ call' = NewCall
    /\ requests' = requests + 1
    /\ systemInstruction' = SystemInstructionOf(planMode)
    /\ UNCHANGED <<msgs, currentContents, aliased, response, funcCalls, idx, orphan, lateRequests,
                   outcome, gate, exec, storeVars, envVars>>

\* a hop whose context check finds the size within the limit: the request
\* is issued with currentContents
LoopCall ==
    /\ pc = "loop"
    /\ hops < MAX_HOPS
    /\ ~(calculateContentSize(currentContents) > MAX_CONTEXT_CHARS)
    /\ hops' = hops + 1
    /\ pc' = "await"
    /\ call' = NewCall
    /\ requests' = requests + 1
    /\ systemInstruction' = SystemInstructionOf(planMode)
    /\ UNCHANGED <<msgs, currentContents, aliased, response, funcCalls, idx, orphan, lateRequests,
                   outcome, gate, exec, storeVars, envVars>>

\* a hop whose context check finds the size above the limit while fewer than
\* 4 messages hold tool calls: summarizeToolCalls returns currentContents,
\* setCurrentSessionMessages stores that very array, the request is issued
LoopSkipSummary ==
    /\ pc = "loop"
    /\ hops < MAX_HOPS
    /\ calculateContentSize(currentContents) > MAX_CONTEXT_CHARS
    /\ SkipsSummary(currentContents)
    /\ hops' = hops + 1
    /\ sessions' = setCurrentSessionMessages(sessions, current, currentContents)
    /\ saved' = save(sessions', current, saved)
    /\ aliased' = (current # 0)
    /\ pc' = "await"
    /\ call' = NewCall
    /\ requests' = requests + 1
    /\ systemInstruction' = SystemInstructionOf(planMode)
    /\ UNCHANGED <<msgs, currentContents, response, funcCalls, idx, orphan, lateRequests, outcome,
                   gate, exec, current, permissions, fs, envVars>>

\* a hop whose context check finds the size above the limit with 4 or more
\* tool messages: the summary request is issued
LoopSummarize ==
    /\ pc = "loop"
    /\ hops < MAX_HOPS
    /\ calculateContentSize(currentContents) > MAX_CONTEXT_CHARS
    /\ ~SkipsSummary(currentContents)
    /\ hops' = hops + 1
    /\ pc' = "summarize"
    /\ call' = NewCall
    /\ requests' = requests + 1
    /\ systemInstruction' = NoInstruction
    /\ UNCHANGED <<msgs, currentContents, aliased, response, funcCalls, idx, orphan, lateRequests,
                   outcome, gate, exec, storeVars, envVars>>

\* SummaryArrives counting the summary request as a hop: a faulty variant that
\* C19 must detect
SummaryArrivesCountsHop ==
    /\ pc = "summarize"
    /\ call.phase = "request"
    /\ Behaves("respond")
    /\ \E summary \in Summaries :
         /\ choices = MaxChoices => summary = <<"S">>
         /\ currentContents' = summarizeToolCalls(currentContents, summary)
    /\ sessions' = setCurrentSessionMessages(sessions, current, currentContents')
    /\ saved' = save(sessions', current, saved)
    /\ aliased' = (current # 0)
    /\ pc' = "await"
    /\ hops' = hops + 1
    /\ call' = NewCall
    /\ requests' = requests + 1
    /\ systemInstruction' = SystemInstructionOf(planMode)
    /\ UNCHANGED <<msgs, response, funcCalls, idx, orphan, lateRequests, outcome, gate, exec,
                   current, permissions, fs, decisions, lastDecision>>

\* the summary request is answered: the tool messages are replaced by the
\* summary, the result is stored as the session's messages, and the hop's
\* request is issued
SummaryArrives ==
    /\ pc = "summarize"
    /\ call.phase = "request"
    /\ Behaves("respond")
    /\ \E summary \in Summaries :
         /\ choices = MaxChoices => summary = <<"S">>
         /\ currentContents' = summarizeToolCalls(currentContents, summary)
    /\ sessions' = setCurrentSessionMessages(sessions, current, currentContents')
    /\ saved' = save(sessions', current, saved)
    /\ aliased' = (current # 0)
    /\ pc' = "await"
    /\ call' = NewCall
    /\ requests' = requests + 1
    /\ systemInstruction' = SystemInstructionOf(planMode)
    /\ UNCHANGED <<msgs, hops, response, funcCalls, idx, orphan, lateRequests, outcome, gate, exec,
                   current, permissions, fs, decisions, lastDecision>>

\* the hop's request is answered without function calls: the final answer
RespondFinal ==
    /\ pc = "await"
    /\ call.phase = "request"
    /\ Behaves("respond")
    /\ \E r \in Responses :
         /\ choices = MaxChoices => r = tail.resp
         /\ r.calls = <<>>
         /\ response' = r
         /\ Return(responseText(r))
    /\ UNCHANGED <<msgs, hops, orphan, requests, systemInstruction, lateRequests, gate, exec, current,
                   permissions, fs, decisions, lastDecision>>

\* the hop's request is answered with function calls: the model's content,
\* when there is one, is added to the history and to currentContents
RespondCalls ==
    /\ pc = "await"
    /\ call.phase = "request"
    /\ Behaves("respond")
    /\ \E r \in Responses :
         /\ choices = MaxChoices => r = tail.resp
         /\ r.calls # <<>>
         /\ response' = r
         /\ funcCalls' = r.calls
         /\ LET modelContent ==
                    Turn("model", [i \in 1..Len(r.calls) |-> CallPart(r.calls[i])])
                pushed == PushBoth(currentContents, sessions, current, aliased,
                                   modelContent, saved)
            IN IF r.content
               THEN /\ currentContents' = pushed.contents
                    /\ sessions' = pushed.sessions
                    /\ saved' = pushed.saved
               ELSE UNCHANGED <<currentContents, sessions, saved>>
    /\ idx' = 1
    /\ pc' = "dispatch"
    /\ call' = NoCall
    /\ UNCHANGED <<msgs, hops, aliased, orphan, requests, systemInstruction, lateRequests, outcome, gate, exec,
                   current, permissions, fs, decisions, lastDecision>>

\* RateLimited without the test attempt < maxRetries: a faulty variant that
\* C9 must detect
RateLimitedForever ==
    /\ pc \in {"await", "summarize"}
    /\ call.phase = "request"
    /\ \E e \in Errors :
         /\ isRateLimit(e)
         /\ Fails(e)
         /\ call' = Sleeping(call.attempt, e)
    /\ UNCHANGED <<pc, msgs, loopVars, orphan, requests, systemInstruction, lateRequests, outcome, gate, exec,
                   storeVars, decisions, lastDecision>>

\* a request fails with a rate-limit error inside the retry loop: the 60 s
\* sleep begins
RateLimited ==
    /\ pc \in {"await", "summarize"}
    /\ call.phase = "request"
    /\ call.attempt < MaxRetries
    /\ \E e \in Errors :
         /\ isRateLimit(e)
         /\ Fails(e)
         /\ call' = Sleeping(call.attempt, e)
    /\ UNCHANGED <<pc, msgs, loopVars, orphan, requests, systemInstruction, lateRequests, outcome, gate, exec,
                   storeVars, decisions, lastDecision>>

\* the sleep ends: the next attempt's request is issued
SleepDone ==
    /\ pc \in {"await", "summarize"}
    /\ call.phase = "sleep"
    /\ call' = [phase |-> "request", attempt |-> call.attempt + 1]
    /\ requests' = requests + 1
    /\ UNCHANGED systemInstruction
    /\ UNCHANGED <<pc, msgs, loopVars, orphan, lateRequests, outcome, gate, exec, storeVars,
                   envVars>>

\* the request after the retry loop fails with a rate-limit error, or any
\* request fails with another error: the error leaves processMessage
RequestFails ==
    /\ pc \in {"await", "summarize"}
    /\ call.phase = "request"
    /\ \E e \in Errors :
         /\ isRateLimit(e) => ~(call.attempt < MaxRetries)
         /\ Fails(e)
         /\ Throw(e)
    /\ UNCHANGED <<msgs, hops, response, orphan, requests, systemInstruction, lateRequests, gate, exec, current,
                   permissions, fs, decisions, lastDecision>>

\* a loop that wraps onPermissionPrompt in withTimeout as well
TimeoutAlsoPrompt ==
    /\ \/ pc \in {"await", "summarize"} /\ call.phase \in {"request", "sleep"}
       \/ pc = "prompt"
    /\ choices < MaxChoices
    /\ choices' = choices + 1
    /\ orphan' = call
    /\ Throw(ApiError(0, 0, IF pc = "summarize" THEN SummaryTimeoutMessage
                             ELSE TimeoutMessage))
    /\ UNCHANGED <<msgs, hops, response, requests, systemInstruction, lateRequests, gate, exec, current, permissions, fs,
                   tail, planMode, baseline, model, fibCall, decisions, lastDecision>>

\* withTimeout's timer fires before generateContentWithRetry settles: the
\* timeout error leaves processMessage, the retry loop runs on
Timeout ==
    /\ pc \in {"await", "summarize"}
    /\ call.phase \in {"request", "sleep"}
    /\ choices < MaxChoices
    /\ choices' = choices + 1
    /\ orphan' = call
    /\ Throw(ApiError(0, 0, IF pc = "await" THEN TimeoutMessage
                             ELSE SummaryTimeoutMessage))
    /\ UNCHANGED <<msgs, hops, response, requests, systemInstruction, lateRequests, gate, exec, current, permissions, fs,
                   tail, planMode, baseline, model, fibCall, decisions, lastDecision>>

\* the retry loop left behind by a timeout: its request fails with a
\* rate-limit error and it sleeps
OrphanRateLimited ==
    /\ orphan.phase = "request"
    /\ orphan.attempt < MaxRetries
    /\ \E e \in Errors :
         /\ isRateLimit(e)
         /\ Fails(e)
         /\ orphan' = Sleeping(orphan.attempt, e)
    /\ UNCHANGED <<pc, msgs, loopVars, call, requests, systemInstruction, lateRequests, outcome, gate, exec,
                   storeVars, decisions, lastDecision>>

\* its sleep ends and it issues the next request
OrphanSleepDone ==
    /\ orphan.phase = "sleep"
    /\ orphan' = [phase |-> "request", attempt |-> orphan.attempt + 1]
    /\ requests' = requests + 1
    /\ UNCHANGED systemInstruction
    /\ lateRequests' = lateRequests + 1
    /\ UNCHANGED <<pc, msgs, loopVars, call, outcome, gate, exec, storeVars, envVars>>

\* its request settles (an answer or an error nobody awaits)
OrphanSettles ==
    /\ orphan.phase = "request"
    /\ orphan' = NoCall
    /\ UNCHANGED <<pc, msgs, loopVars, call, requests, systemInstruction, lateRequests, outcome, gate, exec,
                   storeVars, envVars>>

\* ------------------------------------------------------- permission gate
\* Granted with the user's answer ignored: a faulty variant that C1 must detect
GrantedAlways(hasPermission, permResponse) == TRUE

\* let granted = hasPermission; if (!hasPermission) granted = permResponse.granted
Granted(hasPermission, permResponse) ==
    IF hasPermission THEN TRUE ELSE permResponse.granted

\* AfterPrompt storing every grant: a faulty variant that C13 must detect
AfterPromptAnyGrant(perms, key, permResponse) ==
    IF permResponse.granted THEN setPermission(perms, key, "allow") ELSE perms

\* if (granted && permResponse.alwaysAllow) setPermission(key, {mode: 'allow'})
AfterPrompt(perms, key, permResponse) ==
    IF permResponse.granted /\ permResponse.alwaysAllow
    THEN setPermission(perms, key, "allow")
    ELSE perms

\* toolResponse: {error} when result.error is a non-empty string, else {result}
toolResponse(name, result) ==
    Turn("user", <<IF result.hasError /\ result.error # <<>>
                   THEN RespPart(name, "error", result.error)
                   ELSE RespPart(name, "result", result.output)>>)

denialMessage(name) == Turn("user", <<RespPart(name, "error", DeniedMessage)>>)

\* a decision of the user: chosen freely while the bound allows, the last
\* one repeated afterwards
Decides(d) ==
    IF decisions < MaxDecisions
    THEN decisions' = decisions + 1 /\ lastDecision' = d
    ELSE d = lastDecision /\ UNCHANGED <<decisions, lastDecision>>

\* the for loop moves to the next function call, or the hop ends
Advance ==
    /\ idx' = idx + 1
    /\ pc' = IF idx + 1 > Len(funcCalls) THEN "loop" ELSE "dispatch"
    /\ UNCHANGED <<response, funcCalls>>

\* what the loop decided about fc: its key and rendered description,
\* isAllowed's answer, whether the callback was asked, and the callback's
\* answer
GateRecord(fc, hasPermission, prompted, d) ==
    [msg |-> msgs, hop |-> hops, idx |-> idx, name |-> fc.name,
     key |-> PermissionKey(fc.name),
     description |-> getToolDescription(fc.name, fc.args),
     hasPermission |-> hasPermission, prompted |-> prompted, decision |-> d]

\* the paths whose node differs between two file systems
Changed(before, after) ==
    {q \in DOMAIN before \cup DOMAIN after :
        \/ q \notin DOMAIN before
        \/ q \notin DOMAIN after
        \/ before[q] # after[q]}

\* what one invocation of the executor did
ExecRecord(m, h, i, name, args, before, done) ==
    [msg |-> m, hop |-> h, idx |-> i, name |-> name, args |-> args,
     result |-> done.result, reads |-> done.reads, writes |-> done.writes,
     changed |-> Changed(before, done.fs), probes |-> done.probes]

\* a loop in which plan mode refuses to run the tools instead of only changing the
\* system instruction
RunsToolUnlessPlan(fc) ==
    LET done == IF planMode THEN Done(Err(<<"plan mode">>), fs, {}, {}, {})
                   ELSE executeTool(fc.name, fc.args, fs)
        pushed == PushBoth(currentContents, sessions, current, aliased,
                           toolResponse(fc.name, done.result), saved)
    IN /\ fs' = done.fs
       /\ exec' = ExecRecord(msgs, hops, idx, fc.name, fc.args, fs, done)
       /\ currentContents' = pushed.contents
       /\ sessions' = pushed.sessions
       /\ saved' = pushed.saved

\* the tool runs and its response is added to the history and currentContents
RunsTool(fc) ==
    LET done == executeTool(fc.name, fc.args, fs)
        pushed == PushBoth(currentContents, sessions, current, aliased,
                           toolResponse(fc.name, done.result), saved)
    IN /\ fs' = done.fs
       /\ exec' = ExecRecord(msgs, hops, idx, fc.name, fc.args, fs, done)
       /\ currentContents' = pushed.contents
       /\ sessions' = pushed.sessions
       /\ saved' = pushed.saved

\* the denial is added to the history and currentContents; no tool runs
Denies(fc) ==
    LET pushed == PushBoth(currentContents, sessions, current, aliased,
                           denialMessage(fc.name), saved)
    IN /\ fs' = fs
       /\ exec' = exec
       /\ currentContents' = pushed.contents
       /\ sessions' = pushed.sessions
       /\ saved' = pushed.saved

\* a function call whose permission key is in allow mode: no prompt
DispatchAllowed ==
    /\ pc = "dispatch"
    /\ LET fc == funcCalls[idx]
           hasPermission == isAllowed(permissions, PermissionKey(fc.name))
       IN /\ hasPermission
          /\ IF Granted(hasPermission, NoDecision)
             THEN RunsTool(fc)
             ELSE Denies(fc)
          /\ gate' = GateRecord(fc, hasPermission, FALSE, NoDecision)
    /\ Advance
    /\ UNCHANGED <<msgs, hops, aliased, callVars, outcome, current, permissions,
                   envVars>>

\* DispatchAsk without the test of isAllowed: a faulty variant that C3 must
\* detect
DispatchAskAlways ==
    /\ pc = "dispatch"
    /\ pc' = "prompt"
    /\ UNCHANGED <<msgs, loopVars, callVars, outcome, gate, exec, storeVars, envVars>>

\* a function call whose permission key is not in allow mode:
\* onPermissionPrompt is called and awaited
DispatchAsk ==
    /\ pc = "dispatch"
    /\ ~isAllowed(permissions, PermissionKey(funcCalls[idx].name))
    /\ pc' = "prompt"
    /\ UNCHANGED <<msgs, loopVars, callVars, outcome, gate, exec, storeVars, envVars>>

\* a loop that leaves the for loop at a denial (break for continue): a faulty
\* variant that C36 must detect
DecideBreaksOnDenial ==
    /\ pc = "prompt"
    /\ \E d \in Decisions :
         LET fc == funcCalls[idx] IN
         /\ Decides(d)
         /\ permissions' = AfterPrompt(permissions, PermissionKey(fc.name), d)
         /\ IF Granted(FALSE, d)
            THEN RunsTool(fc) /\ Advance
            ELSE /\ Denies(fc)
                 /\ idx' = Len(funcCalls) + 1
                 /\ pc' = "loop"
                 /\ UNCHANGED <<response, funcCalls>>
         /\ gate' = GateRecord(fc, FALSE, TRUE, d)
    /\ UNCHANGED <<msgs, hops, aliased, callVars, outcome, current, choices, tail, planMode, baseline,
                   model, fibCall>>

\* onPermissionPrompt returns d
Decide ==
    /\ pc = "prompt"
    /\ \E d \in Decisions :
         LET fc == funcCalls[idx] IN
         /\ Decides(d)
         /\ permissions' = AfterPrompt(permissions, PermissionKey(fc.name), d)
         /\ IF Granted(FALSE, d)
            THEN RunsTool(fc)
            ELSE Denies(fc)
         /\ gate' = GateRecord(fc, FALSE, TRUE, d)
    /\ Advance
    /\ UNCHANGED <<msgs, hops, aliased, callVars, outcome, current, choices, tail, planMode, baseline,
                   model, fibCall>>

\* ------------------------------------------------------ plan mode compared
\* Two processes on the same project, one after the other, against a
\* boundary and a user that behave the same in both: the boundary follows its
\* tail and the user repeats one decision.  A session has been created, as
\* the chat loop does before its first prompt.  Plan mode is switched at the
\* prompt, by /plan.
Snapshot ==
    <<pc, msgs, hops, currentContents, aliased, response, funcCalls, idx, call, orphan,
      requests, lateRequests, outcome, gate, exec, sessions, current, saved, permissions,
      fs>>

Constructed ==
    /\ pc = "idle"
    /\ msgs = 0
    /\ hops = 0
    /\ currentContents = <<>>
    /\ aliased = FALSE
    /\ response = NoResponse
    /\ funcCalls = <<>>
    /\ idx = 0
    /\ call = NoCall
    /\ orphan = NoCall
    /\ requests = 0
    /\ lateRequests = 0
    /\ outcome = NoOutcome
    /\ gate = NoGate
    /\ exec = NoExec
    /\ sessions = createSession(<<>>).sessions
    /\ current = createSession(<<>>).current
    /\ saved = sessions
    /\ permissions = NoPermissions
    /\ fs = InitialFs
    /\ planMode = FALSE
    /\ systemInstruction = NoInstruction

InitPlan ==
    /\ Constructed
    /\ tail \in Tails
    /\ choices = MaxChoices
    /\ decisions = MaxDecisions
    /\ lastDecision \in Decisions
    /\ baseline = NoBaseline
    /\ model = DEFAULT_MODEL
    /\ fibCall = NoFibCall

\* agent.setPlanMode(enabled)
SetPlanMode ==
    /\ pc = "idle"
    /\ \E enabled \in BOOLEAN : planMode' = enabled
    /\ UNCHANGED <<pc, msgs, loopVars, callVars, outcome, gate, exec, storeVars, choices,
                   tail, decisions, lastDecision, baseline, model, fibCall>>

\* the process ends at the prompt and a second one is started on a project
\* directory as the first one found it
SecondProcess ==
    /\ pc = "idle"
    /\ msgs > 0
    /\ ~baseline.taken
    /\ baseline' = [taken |-> TRUE, state |-> Snapshot, instruction |-> systemInstruction]
    /\ pc' = "idle"
    /\ msgs' = 0
    /\ hops' = 0
    /\ currentContents' = <<>>
    /\ aliased' = FALSE
    /\ response' = NoResponse
    /\ funcCalls' = <<>>
    /\ idx' = 0
    /\ call' = NoCall
    /\ orphan' = NoCall
    /\ requests' = 0
    /\ lateRequests' = 0
    /\ outcome' = NoOutcome
    /\ gate' = NoGate
    /\ exec' = NoExec
    /\ sessions' = createSession(<<>>).sessions
    /\ current' = createSession(<<>>).current
    /\ saved' = sessions'
    /\ permissions' = NoPermissions
    /\ fs' = InitialFs
    /\ planMode' = FALSE
    /\ systemInstruction' = NoInstruction
    /\ UNCHANGED <<choices, tail, decisions, lastDecision, model, fibCall>>

NextPlan ==
    \/ SetPlanMode
    \/ SecondProcess
    \/ ProcessMessage
    \/ LoopExhausted
    \/ LoopCall
    \/ LoopSkipSummary
    \/ LoopSummarize
    \/ SummaryArrives
    \/ RespondFinal
    \/ RespondCalls
    \/ RateLimited
    \/ SleepDone
    \/ RequestFails
    \/ DispatchAllowed
    \/ DispatchAsk
    \/ Decide

SpecPlan == InitPlan /\ [][NextPlan]_vars

\* ------------------------------------------------------- the history alone
\* The HistoryManager under arbitrary calls of its operations: the messages
\* added and the message arrays set.
HistoryMessages == {TextTurn("user", <<"u">>)}
HistoryArrays == {<<>>, <<TextTurn("user", <<"s">>)>>}

InitHistory ==
    /\ pc = "history"
    /\ currentContents = <<>>
    /\ tail = AnswersTail
    /\ choices = 0
    /\ permissions = NoPermissions
    /\ Start

HistoryUnchanged ==
    UNCHANGED <<pc, msgs, loopVars, callVars, gate, exec, permissions, fs, envVars>>

\* what resumeLastSession() returned: no session (null) or the session's
\* place in the list
Resumed(lastSession) ==
    [kind |-> "resumed", value |-> IF lastSession = 0 THEN <<>> ELSE <<lastSession>>]

HistoryCreateSession ==
    /\ pc = "history"
    /\ Len(sessions) < MaxHistorySessions
    /\ sessions' = createSession(sessions).sessions
    /\ current' = createSession(sessions).current
    /\ saved' = sessions'
    /\ UNCHANGED outcome
    /\ HistoryUnchanged

HistoryResumeLastSession ==
    /\ pc = "history"
    /\ current' = resumeLastSession(sessions, current)
    /\ outcome' = Resumed(getLastSession(sessions))
    /\ UNCHANGED <<sessions, saved>>
    /\ HistoryUnchanged

HistoryClearCurrentSession ==
    /\ pc = "history"
    /\ current' = clearCurrentSession(sessions, current)
    /\ UNCHANGED <<sessions, saved, outcome>>
    /\ HistoryUnchanged

HistoryAddMessage ==
    /\ pc = "history"
    /\ Len(getMessages(sessions, current)) < MaxStored
    /\ \E m \in HistoryMessages : sessions' = addMessage(sessions, current, m)
    /\ saved' = save(sessions', current, saved)
    /\ UNCHANGED <<current, outcome>>
    /\ HistoryUnchanged

HistorySetMessages ==
    /\ pc = "history"
    /\ \E a \in HistoryArrays : sessions' = setCurrentSessionMessages(sessions, current, a)
    /\ saved' = save(sessions', current, saved)
    /\ UNCHANGED <<current, outcome>>
    /\ HistoryUnchanged

NextHistory ==
    \/ HistoryCreateSession
    \/ HistoryResumeLastSession
    \/ HistoryClearCurrentSession
    \/ HistoryAddMessage
    \/ HistorySetMessages

SpecHistory == InitHistory /\ [][NextHistory]_vars

\* ---------------------------------------------------------- the gate alone
\* The permission gate under arbitrary settings files and batches: the keys
\* a record may exist for, the stores load() may find, and the function calls
\* of a response, one of each tool and one of an unknown name.
GateKeys == {"read_file", "write_file", "list_dir", "run_command", "bogus"}
Stores == UNION {[D -> {"ask", "allow"}] : D \in SUBSET GateKeys}
tlBig == Call("tail_file", [path |-> P(FALSE, <<"big.txt">>)])
lsDot == Call("list_dir", [path |-> P(FALSE, <<".">>)])
GateBatches ==
    {<<c>> : c \in {wrA, edA, rdBig, hdBig, tlBig, lsDot, runExit1, bogus}}
    \cup {<<rdBig, hdBig>>, <<wrA, edA>>, <<lsDot, lsDot>>, <<bogus, runExit1>>}

InitGate ==
    /\ pc = "dispatch"
    /\ currentContents = <<>>
    /\ tail = AnswersTail
    /\ choices = 0
    /\ permissions \in Stores
    /\ \E batch \in GateBatches :
         /\ msgs = 0
         /\ hops = 0
         /\ aliased = FALSE
         /\ response = Batch(batch, FALSE)
         /\ funcCalls = batch
         /\ idx = 1
    /\ call = NoCall
    /\ orphan = NoCall
    /\ requests = 0
    /\ lateRequests = 0
    /\ outcome = NoOutcome
    /\ gate = NoGate
    /\ exec = NoExec
    /\ sessions = <<>>
    /\ current = 0
    /\ saved = <<>>
    /\ fs = InitialFs
    /\ decisions = 0
    /\ lastDecision = NoDecision
    /\ planMode = FALSE
    /\ systemInstruction = NoInstruction
    /\ baseline = NoBaseline
    /\ model = DEFAULT_MODEL
    /\ fibCall = NoFibCall

NextGate == DispatchAllowed \/ DispatchAsk \/ Decide

SpecGate == InitGate /\ [][NextGate]_vars

\* ------------------------------------------------------ the settings alone
\* The SettingsManager under arbitrary calls of its operations: the models
\* /model may select, the keys and modes setPermission may be given.
Models == {DEFAULT_MODEL, "gemini-2.5-flash"}
SettingsKeys == {"read_file", "write_file", "list_dir", "run_command"}
SettingsModes == {"ask", "allow"}

\* setModel(model): this.settings.model = model
setModel(settings, newModel) == [settings EXCEPT !.model = newModel]

\* grantPermission(tool, alwaysAllow)
grantPermission(perms, tool, alwaysAllow) ==
    IF alwaysAllow THEN setPermission(perms, tool, "allow") ELSE perms

\* reset(): this.settings = {model: DEFAULT_MODEL, permissions: {}}
reset(settings) == [model |-> DEFAULT_MODEL, permissions |-> NoPermissions]

\* this.settings of the SettingsManager
Settings == [model |-> model, permissions |-> permissions]

\* load(): no settings file
InitSettings ==
    /\ pc = "settings"
    /\ currentContents = <<>>
    /\ tail = AnswersTail
    /\ choices = 0
    /\ permissions = NoPermissions
    /\ Start

SettingsUnchanged ==
    UNCHANGED <<pc, msgs, loopVars, callVars, outcome, gate, exec, sessions, current, saved,
                fs, choices, tail, decisions, lastDecision, planMode, baseline, fibCall>>

\* /model <model-name>
SettingsSetModel ==
    /\ pc = "settings"
    /\ \E newModel \in Models : model' = setModel(Settings, newModel).model
    /\ UNCHANGED permissions
    /\ SettingsUnchanged

SettingsSetPermission ==
    /\ pc = "settings"
    /\ \E tool \in SettingsKeys, mode \in SettingsModes :
         permissions' = setPermission(permissions, tool, mode)
    /\ UNCHANGED model
    /\ SettingsUnchanged

SettingsGrantPermission ==
    /\ pc = "settings"
    /\ \E tool \in SettingsKeys, alwaysAllow \in BOOLEAN :
         permissions' = grantPermission(permissions, tool, alwaysAllow)
    /\ UNCHANGED model
    /\ SettingsUnchanged

\* /reset
SettingsReset ==
    /\ pc = "settings"
    /\ model' = reset(Settings).model
    /\ permissions' = reset(Settings).permissions
    /\ SettingsUnchanged

NextSettings ==
    \/ SettingsSetModel
    \/ SettingsSetPermission
    \/ SettingsGrantPermission
    \/ SettingsReset

SpecSettings == InitSettings /\ [][NextSettings]_vars

\* --------------------------------------------------- the example project
\* A Java long is kept as LongLimbs limbs below LimbBase each, the least
\* significant first, in two's complement: a long is negative when the
\* highest bit of its last limb is set.
LongLimbs == 4
LimbBase == 65536

\* the int n widened to a long, for 0 <= n < LimbBase
toLong(n) == [k \in 1..LongLimbs |-> IF k = 1 THEN n ELSE 0]

\* fib += prevFib: the sum modulo 2^64, the carry out of the last limb lost
RECURSIVE addLongFrom(_, _, _, _)
addLongFrom(a, b, k, carry) ==
    IF k > LongLimbs THEN <<>>
    ELSE LET sum == a[k] + b[k] + carry
         IN  <<sum % LimbBase>> \o addLongFrom(a, b, k + 1, sum \div LimbBase)

addLong(a, b) == addLongFrom(a, b, 1, 0)

\* the call of fibonacci(n): where it is (enter, loop, done), the loop's
\* variables, and how it ended
FibCall(copy, n, at, i, fib, prevFib, threw, value) ==
    [copy |-> copy, n |-> n, at |-> at, i |-> i, fib |-> fib, prevFib |-> prevFib,
     done |-> at = "done", threw |-> threw, value |-> value]

\* the two copies of the class and the arguments of a call
FibonacciCopies == {"Fibonacci.java", "part_002"}

\* the upper limit of the copy: n > 92 throws in Fibonacci.java, the other
\* copy of the class has no such test
OverLimit(copy, n) == copy = "Fibonacci.java" /\ n > 92

InitFibonacci ==
    /\ pc = "fibonacci"
    /\ currentContents = <<>>
    /\ tail = AnswersTail
    /\ choices = 0
    /\ permissions = NoPermissions
    /\ msgs = 0
    /\ hops = 0
    /\ aliased = FALSE
    /\ response = NoResponse
    /\ funcCalls = <<>>
    /\ idx = 0
    /\ call = NoCall
    /\ orphan = NoCall
    /\ requests = 0
    /\ lateRequests = 0
    /\ outcome = NoOutcome
    /\ gate = NoGate
    /\ exec = NoExec
    /\ sessions = <<>>
    /\ current = 0
    /\ saved = <<>>
    /\ fs = InitialFs
    /\ decisions = 0
    /\ lastDecision = NoDecision
    /\ planMode = FALSE
    /\ systemInstruction = NoInstruction
    /\ baseline = NoBaseline
    /\ model = DEFAULT_MODEL
    /\ \E copy \in FibonacciCopies, n \in MinN..MaxN :
         fibCall = FibCall(copy, n, "enter", 0, <<>>, <<>>, FALSE, <<>>)

FibonacciUnchanged ==
    UNCHANGED <<pc, msgs, loopVars, callVars, outcome, gate, exec, storeVars, choices,
                tail, decisions, lastDecision, planMode, baseline, model>>

\* the tests of the argument, return n, and the loop's initialisation
FibonacciEnter ==
    /\ pc = "fibonacci"
    /\ fibCall.at = "enter"
    /\ LET c == fibCall
       IN  fibCall' =
             IF c.n < 0 THEN FibCall(c.copy, c.n, "done", 0, <<>>, <<>>, TRUE, <<>>)
             ELSE IF OverLimit(c.copy, c.n)
                  THEN FibCall(c.copy, c.n, "done", 0, <<>>, <<>>, TRUE, <<>>)
             ELSE IF c.n <= 1
                  THEN FibCall(c.copy, c.n, "done", 0, <<>>, <<>>, FALSE, toLong(c.n))
             ELSE FibCall(c.copy, c.n, "loop", 2, toLong(1), toLong(1), FALSE, <<>>)
    /\ FibonacciUnchanged

\* for (int i = 2; i < n; i++) { temp = fib; fib += prevFib; prevFib = temp; }
FibonacciIterate ==
    /\ pc = "fibonacci"
    /\ fibCall.at = "loop"
    /\ fibCall.i < fibCall.n
    /\ LET c == fibCall
       IN  fibCall' = FibCall(c.copy, c.n, "loop", c.i + 1, addLong(c.fib, c.prevFib), c.fib,
                              FALSE, <<>>)
    /\ FibonacciUnchanged

\* return fib
FibonacciReturn ==
    /\ pc = "fibonacci"
    /\ fibCall.at = "loop"
    /\ ~(fibCall.i < fibCall.n)
    /\ LET c == fibCall
       IN  fibCall' = FibCall(c.copy, c.n, "done", c.i, c.fib, c.prevFib, FALSE, c.fib)
    /\ FibonacciUnchanged

NextFibonacci ==
    \/ FibonacciEnter
    \/ FibonacciIterate
    \/ FibonacciReturn

SpecFibonacci == InitFibonacci /\ [][NextFibonacci]_vars

\* ------------------------------------------------------ the executor alone
\* The executor under arbitrary calls: the path arguments it may be given,
PathArgs ==
    { P(FALSE, <<"a.txt">>), P(FALSE, <<"d", "new.txt">>), P(FALSE, <<".">>),
      P(TRUE, <<"proj", "a.txt">>), P(FALSE, <<"..foo">>),
      P(FALSE, <<"..">>), P(FALSE, <<"..", "etc", "x">>), P(TRUE, <<"etc", "x">>),
      P(FALSE, <<"d", "..", "..", "etc", "x">>), P(FALSE, <<"..", "etc", "new">>) }

\* and the argument mappings of each tool
ToolArgs(name) ==
    {NoArgs} \cup
    CASE name \in {"read_file"} -> [path : PathArgs]
      [] name = "write_file" ->
           [path : PathArgs, content : {<<"f", "o", "o">>, <<"x", NL, "y">>}]
      [] name \in {"head_file", "tail_file"} -> [path : PathArgs, lines : {0, 1}]
      [] name = "list_dir" ->
           [path : PathArgs \cup {P(FALSE, <<"e">>)}, recursive : BOOLEAN]
      [] name = "run_command" -> [command : {"echo hi", "true", "exit 1", "yes"}]
      [] name = "edit_file" ->
           [path : PathArgs, old_string : {<<"f", "o", "o">>, <<"z">>},
            new_string : {<<"b">>}]
           \cup [path : {P(FALSE, <<"a.txt">>)}, old_string : {<<"o">>},
                 new_string : {<<"b">>}]
           \cup [path : {P(FALSE, <<"a.txt">>)}, old_string : {<<"f", "o", "o">>},
                 new_string : {<<"$", "$">>}]
      [] OTHER -> {}

InitTools ==
    /\ pc = "tools"
    /\ currentContents = <<>>
    /\ tail = AnswersTail
    /\ choices = 0
    /\ permissions = NoPermissions
    /\ Start

\* executeTool(name, args) on the file system as it is
ExecuteTool ==
    /\ pc = "tools"
    /\ \E name \in ToolNames \cup {"bogus"} : \E args \in ToolArgs(name) :
         LET done == executeTool(name, args, fs) IN
         /\ fs' = done.fs
         /\ exec' = ExecRecord(0, 0, 0, name, args, fs, done)
    /\ UNCHANGED <<pc, msgs, loopVars, callVars, outcome, gate, sessions, current, saved,
                   permissions, envVars>>

NextTools == ExecuteTool

SpecTools == InitTools /\ [][NextTools]_vars

\* ------------------------------------------------- the context check alone
\* The turns a conversation under the context check is made of: plain turns
\* of both roles, the summary of an earlier compaction, a model turn of text
\* and a function call, and a response turn.
TurnKinds ==
    { TextTurn("user", <<"u">>), TextTurn("model", <<"m">>),
      summaryContent(<<"S">>),
      Turn("model", <<TextPart(<<"t">>), CallPart(hdBig)>>),
      Turn("user", <<RespPart("read_file", "result", <<"r">>)>>) }

Conversations == UNION {[1..n -> TurnKinds] : n \in 0..MaxTurns}

InitCompact ==
    /\ pc = "check"
    /\ currentContents \in Conversations
    /\ tail = AnswersTail
    /\ choices = 0
    /\ permissions = NoPermissions
    /\ Start

\* currentContents = await this.summarizeToolCalls(currentContents);
\* this.history.setCurrentSessionMessages(currentContents)
ContextCheck ==
    /\ pc = "check"
    /\ \E summary \in Summaries :
         currentContents' = summarizeToolCalls(currentContents, summary)
    /\ sessions' = setCurrentSessionMessages(sessions, current, currentContents')
    /\ saved' = save(sessions', current, saved)
    /\ pc' = "checked"
    /\ UNCHANGED <<msgs, hops, aliased, response, funcCalls, idx, callVars, outcome, gate, exec,
                   current, permissions, fs, envVars>>

NextCompact == ContextCheck

SpecCompact == InitCompact /\ [][NextCompact]_vars

\* ---------------------------------------------------------- specification
Next ==
    \/ CreateSession
    \/ ProcessMessage
    \/ LoopExhausted
    \/ LoopCall
    \/ LoopSkipSummary
    \/ LoopSummarize
    \/ SummaryArrives
    \/ RespondFinal
    \/ RespondCalls
    \/ RateLimited
    \/ SleepDone
    \/ RequestFails
    \/ Timeout
    \/ OrphanRateLimited
    \/ OrphanSleepDone
    \/ OrphanSettles
    \/ DispatchAllowed
    \/ DispatchAsk
    \/ Decide

Spec == Init /\ [][Next]_vars

\* ------------------------------------------- the agent without a session
\* The agent on a HistoryManager whose caller also resumes and clears the
\* current session between two messages.
ResumeLastSession ==
    /\ pc = "idle"
    /\ current' = resumeLastSession(sessions, current)
    /\ UNCHANGED <<pc, msgs, loopVars, callVars, outcome, gate, exec, sessions, saved,
                   permissions, fs, envVars>>

ClearCurrentSession ==
    /\ pc = "idle"
    /\ current' = clearCurrentSession(sessions, current)
    /\ UNCHANGED <<pc, msgs, loopVars, callVars, outcome, gate, exec, sessions, saved,
                   permissions, fs, envVars>>

NextSession ==
    \/ Next
    \/ ResumeLastSession
    \/ ClearCurrentSession

SpecSession == Init /\ [][NextSession]_vars

\* ================================================================= claims
Last(seq) == seq[Len(seq)]
Tag(r) == <<r.msg, r.hop, r.idx>>
ToolTurns(contents) ==
    {i \in 1..Len(contents) :
        \E p \in 1..Len(contents[i].parts) : contents[i].parts[p].type # "text"}
DenialTurn(name) ==
    Turn("user", <<RespPart(name, "error", <<"Permission denied by user">>)>>)

\* C1 (permission gating): the executor is invoked for a function call only
\* if its permission key is in allow mode when the loop decides, or the
\* decision callback answered granted for that very call; when the answer is
\* not granted the turn with the error 'Permission denied by user' is
\* appended, the executor is not invoked and the file system is left as it is.
C1_PermissionGating ==
    [][ /\ exec' # exec =>
             \/ pc = "dispatch"
                /\ isAllowed(permissions, PermissionKey(funcCalls[idx].name))
             \/ pc = "prompt" /\ lastDecision'.granted
        /\ (pc = "prompt" /\ pc' # "prompt" /\ ~lastDecision'.granted) =>
             /\ exec' = exec
             /\ fs' = fs
             /\ Len(currentContents') > Len(currentContents)
             /\ Last(currentContents') = DenialTurn(funcCalls[idx].name)
      ]_vars

\* C1: a call was denied by the user: the denial turn is the last turn and
\* the executor's last invocation is an earlier one
C1_Witness ==
    /\ gate.prompted
    /\ ~gate.decision.granted
    /\ Tag(exec) # Tag(gate)
    /\ currentContents # <<>>
    /\ Last(currentContents) = DenialTurn(gate.name)

\* C2 (hop bound): the loop never makes more than MAX_HOPS iterations, every
\* iteration issues a request, and the loop is left from its head only after
\* exactly MAX_HOPS iterations, by returning the exhaustion message as a
\* value.
C2_HopBound ==
    /\ [](hops <= MAX_HOPS)
    /\ [][ /\ hops' # hops => (hops' = 0 \/ (hops' = hops + 1 /\ requests' = requests + 1))
           /\ (pc = "loop" /\ pc' = "idle") =>
                /\ hops = MAX_HOPS
                /\ outcome' = [kind |-> "returned", value |-> ExhaustedMessage]
         ]_vars

\* C2: an invocation ended with the exhaustion message after 25 iterations
C2_Witness ==
    /\ pc = "idle"
    /\ outcome = [kind |-> "returned", value |-> ExhaustedMessage]
    /\ hops = 25
    /\ requests >= 25

\* C3 (permission monotonicity): a permission key in allow mode stays in
\* allow mode, and a function call whose key is in allow mode is executed
\* without the decision callback being invoked.
C3_PermissionMonotonicity ==
    [][ /\ \A k \in DOMAIN permissions :
             isAllowed(permissions, k) => isAllowed(permissions', k)
        /\ (pc = "dispatch" /\ isAllowed(permissions, PermissionKey(funcCalls[idx].name))) =>
             /\ pc' # "prompt"
             /\ decisions' = decisions
             /\ Tag(exec') = <<msgs, hops, idx>>
             /\ exec'.name = funcCalls[idx].name
      ]_vars

\* C3: in a second invocation a call ran on a key already in allow mode,
\* without a prompt
C3_Witness ==
    /\ gate.msg = 2
    /\ gate.hasPermission
    /\ ~gate.prompted
    /\ Tag(exec) = Tag(gate)
    /\ isAllowed(permissions, gate.key)

\* C4 (ordered sequential dispatch): the function calls of a response are
\* processed in the order returned, and each one appends exactly one result
\* turn to the loop's working conversation and exactly one to the session's
\* stored history, in every hop.
C4_OrderedDispatch ==
    [][ (gate' # gate /\ current # 0) =>
          /\ gate'.idx = idx
          /\ gate'.name = funcCalls[idx].name
          /\ idx' = idx + 1
          /\ Len(currentContents') = Len(currentContents) + 1
          /\ Len(sessions'[current].messages) = Len(sessions[current].messages) + 1
      ]_vars

\* C5 (request/result causality): in the working conversation and in the
\* stored history every function-response part is preceded by a model turn
\* holding a function call of the same name.
C5_Caused(contents) ==
    \A i \in 1..Len(contents) : \A p \in 1..Len(contents[i].parts) :
        contents[i].parts[p].type = "functionResponse" =>
            \E j \in 1..(i - 1) :
                /\ contents[j].role = "model"
                /\ \E q \in 1..Len(contents[j].parts) :
                     /\ contents[j].parts[q].type = "functionCall"
                     /\ contents[j].parts[q].name = contents[i].parts[p].name
C5_Causality ==
    /\ C5_Caused(currentContents)
    /\ \A n \in 1..Len(sessions) : C5_Caused(sessions[n].messages)

C7_Plain(contents) ==
    SelectSeq(contents, LAMBDA m : \A p \in 1..Len(m.parts) : m.parts[p].type = "text")
C7_WithoutAt(contents, k) ==
    SubSeq(contents, 1, k - 1) \o SubSeq(contents, k + 1, Len(contents))
C7_CompactionSafety ==
    [][ pc = "check" =>
          IF Cardinality(ToolTurns(currentContents)) < 4
          THEN currentContents' = currentContents
          ELSE /\ ToolTurns(currentContents') = {}
               /\ Len(currentContents') = Len(C7_Plain(currentContents)) + 1
               /\ Len(currentContents') < Len(currentContents)
               /\ \E k \in 1..Len(currentContents') :
                    /\ C7_WithoutAt(currentContents', k) = C7_Plain(currentContents)
                    /\ \E s \in Summaries :
                         currentContents'[k] =
                           TextTurn("user", <<"[Previous tool calls summary: ">> \o s
                                              \o <<"]">>)
      ]_vars

\* C7: a compaction has replaced the tool turns of a conversation that also
\* held plain turns
C7_Witness ==
    /\ pc = "checked"
    /\ Len(currentContents) = 3
    /\ currentContents[1] # currentContents[3]
    /\ ToolTurns(currentContents) = {}
    /\ \E k \in 1..Len(currentContents) :
         currentContents[k] =
           TextTurn("user", <<"[Previous tool calls summary: ",
                              "Tool calls were performed.", "]">>)

\* C8 (context budget, as stated): every conversation the loop submits as a
\* hop's request has a size of at most MAX_CONTEXT_CHARS.
C8_ContextBudget ==
    pc = "await" => calculateContentSize(currentContents) <= MAX_CONTEXT_CHARS

\* C8 (context budget, amended): every conversation the loop submits as a
\* hop's request has a size of at most MAX_CONTEXT_CHARS or holds fewer than
\* 4 tool turns.
C8_ContextBudgetAmended ==
    pc = "await" =>
        \/ calculateContentSize(currentContents) <= MAX_CONTEXT_CHARS
        \/ Cardinality(ToolTurns(currentContents)) < 4

\* C8: a hop's request was issued after a compaction that brought the size
\* back under the threshold
C8_Witness ==
    /\ pc = "await"
    /\ aliased
    /\ ToolTurns(currentContents) = {}
    /\ calculateContentSize(currentContents) <= MAX_CONTEXT_CHARS
    /\ \E k \in 1..Len(currentContents) : currentContents[k] = summaryContent(<<"S">>)

\* C9 (rate-limit retry): a request that fails with a rate-limit error is
\* followed by a sleep of 60 s and one more request, at most 3 times (4
\* requests in all); a sleep follows a rate-limit error only; when the
\* request after the third sleep fails its error leaves processMessage, and
\* an error that is no rate-limit error leaves at once.
C9_RateLimitRetry ==
    [][ /\ call'.attempt <= 3
        /\ call'.phase = "sleep" =>
             /\ call'.ms = 60000
             /\ \/ call'.error.status = 429
                \/ call'.error.code = 429
                \/ Includes(call'.error.message, <<"429">>)
                \/ Includes(call'.error.message, <<"RESOURCE_EXHAUSTED">>)
        /\ (call.phase = "request" /\ call'.phase = "sleep") =>
             /\ call'.attempt = call.attempt
             /\ requests' = requests
        /\ (call.phase = "sleep" /\ call' # call) =>
             \/ /\ call' = [phase |-> "request", attempt |-> call.attempt + 1]
                /\ requests' = requests + 1
             \/ /\ outcome'.kind = "threw"
                /\ outcome'.value.message \in {TimeoutMessage, SummaryTimeoutMessage}
        /\ (call.phase = "request" /\ outcome' # outcome /\ outcome'.kind = "threw"
            /\ outcome'.value.message \notin {TimeoutMessage, SummaryTimeoutMessage}) =>
             /\ requests' = requests
             /\ isRateLimit(outcome'.value) => call.attempt = 3
      ]_vars

\* C9: the fourth request of a call failed with a rate-limit error, which
\* left processMessage
C9_Witness ==
    /\ pc = "idle"
    /\ outcome.kind = "threw"
    /\ outcome.value.status = 429
    /\ requests = 4

\* C10 (completion timeout): after the timeout error has left processMessage
\* no further request is issued to the completion boundary for that
\* invocation.
C10_TimeoutFatal ==
    (outcome.kind = "threw"
     /\ outcome.value.message \in {TimeoutMessage, SummaryTimeoutMessage}) =>
        /\ pc = "idle"
        /\ lateRequests = 0

\* C11: whenever processMessage has returned or thrown, the history file as
\* last saved equals the history in memory.  It fails: once the session's
\* messages and currentContents are one array, the push onto currentContents
\* that follows addMessage's save is never saved when the invocation throws.
C11_PersistBeforeReturn ==
    (pc = "idle" /\ outcome.kind \in {"returned", "threw"}) => saved = sessions

\* a step in which the hop's request is answered without function calls
C12_FinalStep == pc = "await" /\ pc' = "idle" /\ outcome'.kind = "returned"

\* the loop ends in that step returning value: nothing is dispatched, no
\* request is issued or left pending, and the current session grows by
\* exactly one model turn of that text
C12_Ends(value) ==
    /\ outcome'.value = value
    /\ gate' = gate /\ exec' = exec /\ fs' = fs /\ permissions' = permissions
    /\ hops' = hops /\ requests' = requests
    /\ call'.phase = "none" /\ orphan'.phase = "none"
    /\ current' = current
    /\ current # 0 =>
         /\ Len(sessions') = Len(sessions)
         /\ \A k \in 1..Len(sessions) : k # current => sessions'[k] = sessions[k]
         /\ sessions'[current].messages =
                Append(sessions[current].messages, TextTurn("model", value))

\* until the next processMessage no request is issued
C12_NoLaterCall ==
    (pc = "idle" /\ pc' = "idle" /\ outcome.kind = "returned") => requests' = requests

\* C12 as stated: a response with zero function calls ends the loop in that
\* hop; processMessage returns the response's text, nothing is dispatched, no
\* further request is made and exactly one model turn carrying that text is
\* appended to the session.  It fails for a response whose text is undefined.
C12_FinalAnswer ==
    [][/\ C12_FinalStep => (response'.hasText /\ C12_Ends(response'.text))
       /\ C12_NoLaterCall]_vars

\* C12 amended: the value returned and appended is the response's text, or
\* 'No response from agent.' when the response has no text.
C12_FinalAnswerAmended ==
    [][/\ C12_FinalStep =>
            C12_Ends(IF response'.hasText THEN response'.text ELSE NoResponseMessage)
       /\ C12_NoLaterCall]_vars

\* C12 witness: a text-less response without function calls has ended an
\* invocation with a session current
C12_Witness ==
    /\ pc = "idle"
    /\ outcome.kind = "returned"
    /\ outcome.value = NoResponseMessage
    /\ response = Silent
    /\ hops > 1
    /\ current # 0
    /\ sessions[current].messages # <<>>
    /\ Last(sessions[current].messages) = TextTurn("model", NoResponseMessage)

\* the mode of permission key k in a store: a missing record counts as ask
C13_Mode(perms, k) == IF k \in DOMAIN perms THEN perms[k] ELSE "ask"

\* C13: inside the agentic loop the permission store changes only when the
\* decision callback returns granted and alwaysAllow, and then only the key of
\* the function call moves from ask to allow.  A once-only grant, a denial
\* (with or without alwaysAllow) and a call on a key in allow mode leave the
\* store unchanged, so after a once-only grant the next call of that key
\* prompts again.
C13_PermissionTransitions ==
    [][ /\ permissions' # permissions =>
             /\ pc = "prompt"
             /\ gate'.prompted
             /\ gate'.decision.granted /\ gate'.decision.alwaysAllow
             /\ gate'.key = PermissionKey(funcCalls[idx].name)
             /\ C13_Mode(permissions, gate'.key) = "ask"
             /\ C13_Mode(permissions', gate'.key) = "allow"
             /\ \A k \in (DOMAIN permissions \cup DOMAIN permissions') \ {gate'.key} :
                    C13_Mode(permissions', k) = C13_Mode(permissions, k)
        /\ (pc = "prompt" /\ pc' # "prompt"
               /\ ~(gate'.decision.granted /\ gate'.decision.alwaysAllow)) =>
             permissions' = permissions
        /\ (pc = "dispatch" /\ pc' # "prompt") => permissions' = permissions
        /\ (pc = "dispatch" /\ gate.prompted /\ gate.decision.granted
               /\ ~gate.decision.alwaysAllow
               /\ gate.key = PermissionKey(funcCalls[idx].name)) =>
             pc' = "prompt"
      ]_vars

\* C13 witness: after a once-only grant the next call of the same key is at
\* the prompt again, the store still without a record in allow mode for it
C13_Witness ==
    /\ pc = "prompt"
    /\ gate.prompted /\ gate.decision.granted /\ ~gate.decision.alwaysAllow
    /\ Tag(gate) = <<msgs, hops, idx - 1>>
    /\ gate.key = PermissionKey(funcCalls[idx].name)
    /\ ~isAllowed(permissions, gate.key)

\* the key of the function call at the gate
C14_Key == PermissionKey(funcCalls[idx].name)

\* C14: the gate lets a function call through without the decision callback
\* if and only if the stored record of its key has mode allow; a missing
\* record and a record with mode ask both lead to the prompt and to the same
\* dispatch, and with an empty store every call prompts.
C14_DefaultIsAsk ==
    [][ pc = "dispatch" =>
          /\ isAllowed(permissions, C14_Key) <=>
                (C14_Key \in DOMAIN permissions /\ permissions[C14_Key] = "allow")
          /\ (pc' = "prompt") <=>
                (C14_Key \notin DOMAIN permissions \/ permissions[C14_Key] = "ask")
          /\ (pc' # "prompt") =>
                (gate'.hasPermission /\ ~gate'.prompted /\ decisions' = decisions)
          /\ permissions = NoPermissions => pc' = "prompt"
      ]_vars

\* C14 witness: the second call of a batch is at the prompt under a record
\* with mode ask, the first having been prompted too
C14_Witness ==
    /\ pc = "prompt"
    /\ idx = 2
    /\ gate.prompted
    /\ C14_Key \in DOMAIN permissions
    /\ permissions[C14_Key] = "ask"

\* the tools that take a path
C15_PathTools ==
    {"read_file", "write_file", "head_file", "tail_file", "list_dir", "edit_file"}

\* C15: whatever the name and the arguments, executeTool returns a result and
\* no exception leaves it: a path outside the project root, a failed command
\* and a file-system exception all come back as error results.
C15_ExecutorNeverThrows ==
    /\ ~IsThrown(exec.result)
    /\ (exec.name \in C15_PathTools /\ ~resolvePath(ArgPath(exec.args)).ok) =>
           exec.result = Err(TraversalError)
    /\ (exec.name = "run_command" /\ ShellOutcome(ArgCommand(exec.args)).status # "ok") =>
           (exec.result.hasError /\ exec.result.error # <<>>)
    /\ (exec.name \notin ToolNames /\ exec.name # "") =>
           exec.result = Err(<<"Unknown tool: ", exec.name>>)

\* C15 witness: a file-system exception inside a tool (reading a directory as
\* a file) has come back as an error result
C15_Witness ==
    /\ exec.name = "read_file"
    /\ resolvePath(ArgPath(exec.args)).ok
    /\ exec.result = Err(FsError)

\* the function call at the gate, and the error turn its name gets
C16_Call == funcCalls[idx]
C16_ErrorTurn(message) == Turn("user", <<RespPart(C16_Call.name, "error", message)>>)

\* C16: a function call whose name is not a tool's is rendered as 'Unknown
\* tool', and the step that settles it (at once under an allow record, or
\* when the prompt returns) appends an error response for it, leaves the file
\* system alone, runs no command, throws nothing and moves the loop to the
\* next call or, after the last one, to the next hop.
C16_UnknownNames ==
    [][ (pc \in {"dispatch", "prompt"} /\ pc' # "prompt"
            /\ C16_Call.name \notin ToolNames) =>
          LET unknown == <<"Unknown tool: ", C16_Call.name>>
              ran == Tag(exec') = <<msgs, hops, idx>> /\ exec' # exec
          IN /\ gate'.name = C16_Call.name
             /\ gate'.description = unknown
             /\ fs' = fs
             /\ ran => /\ exec'.name = C16_Call.name
                       /\ exec'.result = Err(unknown)
                       /\ exec'.reads = {} /\ exec'.writes = {}
                       /\ exec'.changed = {} /\ exec'.probes = {}
             /\ ~ran => exec' = exec
             /\ Len(currentContents') > Len(currentContents)
             /\ SubSeq(currentContents', 1, Len(currentContents)) = currentContents
             /\ Last(currentContents') =
                    C16_ErrorTurn(IF ran THEN unknown ELSE DeniedMessage)
             /\ outcome' = outcome
             /\ idx' = idx + 1
             /\ pc' = IF idx < Len(funcCalls) THEN "dispatch" ELSE "loop"
      ]_vars

\* C16 witness: the unknown call of a batch was executed and the loop is at
\* the next call of the batch
C16_Witness ==
    /\ pc = "dispatch"
    /\ idx = 2
    /\ exec.name = "bogus"
    /\ exec.result = Err(<<"Unknown tool: ", "bogus">>)
    /\ gate.description = <<"Unknown tool: ", "bogus">>
    /\ Last(currentContents) =
           Turn("user", <<RespPart("bogus", "error", <<"Unknown tool: ", "bogus">>)>>)

\* C17: the result of every invocation of executeTool has exactly one of
\* output and error: an error result carries a non-empty error string and no
\* output, every other result carries an output string, also an empty one.
C17_ResultShape ==
    exec.name # "" =>
        /\ ~IsThrown(exec.result)
        /\ exec.result.hasOutput # exec.result.hasError
        /\ exec.result.hasError => (exec.result.error # <<>> /\ exec.result.output = <<>>)
        /\ exec.result.hasOutput =>
             (exec.result.error = <<>> /\ exec.result.output \in Seq(STRING))

\* C17 witness: reading an empty file succeeded with the empty string as
\* output
C17_Witness ==
    /\ exec.name = "read_file"
    /\ exec.reads # {}
    /\ exec.result.hasOutput
    /\ ~exec.result.hasError
    /\ exec.result.output = <<>>

\* exactly one session is current
C18_OneCurrent(sess, cur) == cur \in 1..Len(sess)

\* the sessions before the current one are kept as they were
C18_EarlierKept ==
    \A k \in 1..Len(sessions) :
        k # current => (k <= Len(sessions') /\ sessions'[k] = sessions[k])

\* C18: after every operation of the HistoryManager exactly one session is
\* current; createSession appends a session and makes it current; addMessage
\* and setCurrentSessionMessages leave every session but the current one as it
\* was.  It fails: clearCurrentSession leaves no session current, and neither
\* does resumeLastSession on an empty history.
C18_CurrentSession ==
    [][ /\ C18_OneCurrent(sessions', current')
        /\ Len(sessions') > Len(sessions) =>
             /\ current' = Len(sessions')
             /\ SubSeq(sessions', 1, Len(sessions)) = sessions
        /\ C18_EarlierKept
      ]_vars

\* C18 without the first conjunct: the part of the claim the operations keep
C18_SessionsKept ==
    [][ /\ Len(sessions') > Len(sessions) =>
             /\ current' = Len(sessions')
             /\ SubSeq(sessions', 1, Len(sessions)) = sessions
        /\ C18_EarlierKept
      ]_vars

\* the requests processMessage's own calls have issued: all but those of a
\* retry loop left behind by a timeout
C19_OwnRequests == requests - lateRequests

\* C19 as stated: the hop counter is incremented once for each request to the
\* completion boundary, so the requests of one invocation number as many as
\* its hops (and at most 25).  It fails: a retry after a rate-limit error and
\* the summary request of a context check are requests without a hop.
C19_HopAccounting == C19_OwnRequests = hops /\ hops <= MAX_HOPS

\* C19 amended: the hop counter is incremented once per iteration of the
\* loop, in the step that issues the iteration's first request and nowhere
\* else; an iteration issues its request after at most one summary request,
\* each attempted at most 1 + MaxRetries times, so an invocation has issued at
\* least as many requests as hops and at most 2 * (1 + MaxRetries) times as
\* many, and never more than 25 hops.
C19_HopAccountingAmended ==
    /\ [](/\ hops <= MAX_HOPS
          /\ hops <= C19_OwnRequests
          /\ C19_OwnRequests <= 2 * (1 + MaxRetries) * hops
          /\ call.attempt <= MaxRetries)
    /\ [][ /\ (hops' # hops /\ msgs' = msgs) =>
                (pc = "loop" /\ hops' = hops + 1 /\ requests' = requests + 1)
           /\ (pc = "loop" /\ pc' \in {"await", "summarize"}) => hops' = hops + 1
           /\ (requests' # requests /\ msgs' = msgs /\ lateRequests' = lateRequests) =>
                /\ requests' = requests + 1
                /\ \/ pc = "loop" /\ hops' = hops + 1
                   \/ pc = "summarize" /\ pc' = "await" /\ hops' = hops
                   \/ call.phase = "sleep" /\ call'.attempt = call.attempt + 1
                                           /\ hops' = hops
         ]_vars

\* C19 witness: the summary request of a hop is at its second attempt after a
\* rate-limit error, two requests beyond the hop counter
C19_Witness ==
    /\ pc = "summarize"
    /\ call.phase = "request"
    /\ call.attempt = 1
    /\ C19_OwnRequests > hops

\* C20: every invocation of processMessage starts its loop with the hop
\* counter at zero, whatever the earlier invocations did, and gives up with
\* the exhaustion message only after 25 hops of its own.
C20_HopCounterScope ==
    /\ (pc = "loop" /\ requests = 0) => hops = 0
    /\ (pc = "idle" /\ outcome.kind = "returned" /\ outcome.value = ExhaustedMessage) =>
         hops = MAX_HOPS
    /\ (pc = "idle" /\ outcome.kind = "returned" /\ hops < MAX_HOPS) =>
         response.calls = <<>>

\* C20 witness: after a first invocation that ended in exhaustion (the
\* boundary requests function calls at every request) the second invocation
\* has used 25 hops of its own
C20_Witness ==
    /\ msgs = 2
    /\ hops = MAX_HOPS
    /\ tail.kind = "respond"
    /\ tail.resp.calls # <<>>
    /\ pc = "idle"
    /\ outcome.kind = "returned"
    /\ outcome.value = ExhaustedMessage

\* C21: of two processes given the same responses and the same decisions, at
\* the prompt after the same number of messages the second is in the state
\* the first was in (the same gate decisions, executions, history, file
\* system, permissions and returned value), whatever plan mode either ran in;
\* what plan mode decides is the system instruction of the loop's requests.
C21_PlanModeSameLoop ==
    /\ (baseline.taken /\ pc = "idle" /\ msgs = baseline.state[2]) =>
           Snapshot = baseline.state
    /\ pc = "await" =>
           systemInstruction =
               (IF planMode THEN SYSTEM_INSTRUCTION \o PLAN_SYSTEM_ADDITION
                ELSE SYSTEM_INSTRUCTION)
    /\ pc = "summarize" => systemInstruction = NoInstruction

\* C21 witness: a second process in plan mode has processed two messages,
\* with prompts and executions, as a first in normal mode did
C21_Witness ==
    /\ baseline.taken
    /\ baseline.instruction = SYSTEM_INSTRUCTION
    /\ planMode
    /\ systemInstruction = SYSTEM_INSTRUCTION \o PLAN_SYSTEM_ADDITION
    /\ pc = "idle"
    /\ msgs = 2
    /\ baseline.state[2] = 2
    /\ gate.prompted
    /\ exec.name # ""
    /\ Snapshot = baseline.state

\* C22: while onPermissionPrompt has not returned the loop stays where it
\* is: no step other than the callback's return changes the loop's position,
\* its result, the hop and call index, the conversation, the session store
\* on disk or in memory, the permissions, the file system, the record of the
\* last permission check and execution, or the number of requests the loop
\* itself has issued; and the callback's return is what moves the loop on.
C22_Suspended ==
    /\ pc' = "prompt"
    /\ UNCHANGED <<msgs, hops, currentContents, aliased, response, funcCalls, idx, call,
                   outcome, gate, exec, sessions, current, saved, permissions, fs>>
    /\ C19_OwnRequests' = C19_OwnRequests
C22_NoTimeoutOnDecision ==
    [][pc = "prompt" => \/ C22_Suspended
                        \/ Decide /\ pc' # "prompt" /\ gate'.prompted]_vars
\* the loop waits for the callback on the second call of a batch, after the
\* callback's return on the first call let it run that call
C22_Witness ==
    /\ pc = "prompt"
    /\ idx = 2
    /\ gate.prompted
    /\ gate.msg = msgs
    /\ gate.idx = 1
    /\ gate.decision.granted
    /\ exec.idx = 1

\* C23 (compaction splice position): when the context check compacts a
\* conversation, the result is the plain turns that preceded the last tool
\* turn, in their order, then the one summary turn, then the turns that
\* followed the last tool turn; the summary is the last turn when nothing
\* followed the last tool turn.
C23_LastTool(contents) ==
    CHOOSE k \in ToolTurns(contents) : \A j \in ToolTurns(contents) : j <= k
C23_SplicePosition ==
    [][ (pc = "check" /\ Cardinality(ToolTurns(currentContents)) >= 4) =>
          LET last == C23_LastTool(currentContents)
              before == C7_Plain(SubSeq(currentContents, 1, last - 1))
              after == SubSeq(currentContents, last + 1, Len(currentContents))
          IN /\ after = C7_Plain(after)
             /\ \E s \in Summaries :
                  currentContents' = before \o <<summaryContent(s)>> \o after
             /\ (after = <<>>) => Last(currentContents') \in
                                      {summaryContent(s) : s \in Summaries}
      ]_vars

\* C23: a compaction has put the summary between a plain turn that preceded
\* the last tool turn and a plain turn that followed it
C23_Witness ==
    /\ pc = "checked"
    /\ Len(currentContents) = 3
    /\ currentContents[1] = TextTurn("model", <<"m">>)
    /\ currentContents[2] = summaryContent(<<"Tool calls were performed.">>)
    /\ currentContents[3] = TextTurn("user", <<"u">>)

\* C24 (fatal errors leave the session usable): the step in which
\* processMessage throws an error of the completion boundary leaves the
\* current session current and the sessions, in memory and on disk, as they
\* were, so that every turn the session held is kept and no model text turn
\* is added for the failed request; the chat loop is back at its prompt, where
\* a following processMessage is accepted, and that processMessage adds its
\* user turn at the end of the same session.
C24_UserTurn(n) == TextTurn("user", <<"message ", ToString(n)>>)
C24_Fails == pc \in {"await", "summarize"} /\ pc' = "idle" /\ outcome'.kind = "threw"
C24_Failed == pc = "idle" /\ outcome.kind = "threw" /\ current # 0
C24_SessionUsable ==
    /\ [](C24_Failed =>
            /\ current \in 1..Len(sessions)
            /\ msgs < MaxMessages => ENABLED ProcessMessage)
    /\ [][ /\ (C24_Fails /\ current # 0) =>
                /\ current' = current
                /\ sessions' = sessions
                /\ saved' = saved
                /\ \E i \in 1..Len(sessions'[current].messages) :
                      sessions'[current].messages[i] = C24_UserTurn(msgs)
           /\ (C24_Failed /\ pc' = "loop") =>
                /\ current' = current
                /\ sessions' = [sessions EXCEPT ![current].messages =
                                    Append(@, C24_UserTurn(msgs + 1))]
       ]_vars

\* C24: the second processMessage has added its user turn to the session
\* that holds the first one's user turn and the turns of its completed hop,
\* the first having failed before any final text
C24_Witness ==
    /\ pc = "loop"
    /\ msgs = 2
    /\ hops = 0
    /\ current # 0
    /\ exec.msg = 1
    /\ LET m == sessions[current].messages
       IN /\ Len(m) >= 4
          /\ m[1] = C24_UserTurn(1)
          /\ Last(m) = C24_UserTurn(2)
          /\ ToolTurns(m) # {}
          /\ \A i \in 1..Len(m) : m[i].role = "model" => i \in ToolTurns(m)

\* C25 (write_file overwrites): after write_file(f, c) has succeeded,
\* read_file(f) returns exactly c, whatever f held before; the same write
\* again succeeds and leaves the file system as it is, so that read_file(f)
\* still returns c; and every directory above f exists.
C25_WriteOverwrites ==
    (exec.name = "write_file" /\ exec.result.hasOutput) =>
        LET f == ArgPath(exec.args)
            c == ArgContent(exec.args)
            again == writeFile(exec.args, fs)
        IN /\ readFile([path |-> f], fs).result = Out(c)
           /\ again.result = exec.result
           /\ again.fs = fs
           /\ readFile([path |-> f], again.fs).result = Out(c)
           /\ \A d \in Prefixes(Dirname(resolvePath(f).path)) : IsDir(fs, d)

\* C25: write_file has created a file and the directory above it, which
\* did not exist
C25_Witness ==
    /\ exec.name = "write_file"
    /\ exec.result.hasOutput
    /\ ArgContent(exec.args) = <<"x", NL, "y">>
    /\ exec.changed = {<<"proj", "d">>, <<"proj", "d", "new.txt">>}
    /\ fs[<<"proj", "d", "new.txt">>] = FileNode(<<"x", NL, "y">>)

\* the lines of the file a head_file or tail_file call names, the count the
\* call requests (100 when lines is omitted), and the lines the claim
\* promises for a count n
C26_Lines == SplitLines(fs[resolvePath(ArgPath(exec.args)).path].content)
C26_Requested == IF "lines" \in DOMAIN exec.args THEN exec.args.lines ELSE 100
C26_Promised(n) ==
    LET k == Len(C26_Lines)
        m == Min(n, k)
    IN IF exec.name = "head_file" THEN JoinLines(SubSeq(C26_Lines, 1, m))
       ELSE JoinLines(SubSeq(C26_Lines, k - m + 1, k))
C26_OnFile ==
    /\ exec.name \in {"head_file", "tail_file"}
    /\ resolvePath(ArgPath(exec.args)).ok
    /\ IsFile(fs, resolvePath(ArgPath(exec.args)).path)

\* C26 as stated: for a file of k lines and every requested count n,
\* head_file returns the first min(n, k) lines and tail_file the last
\* min(n, k) lines, joined with newlines, the count being 100 when lines is
\* omitted; the result is an output, never an error.  It fails for the
\* count 0, which Number(args.lines) || 100 turns into 100.
C26_HeadTail ==
    C26_OnFile => exec.result = Out(C26_Promised(C26_Requested))

\* C26 for the counts of at least 1, and for an omitted count: this much
\* holds
C26_HeadTailPositive ==
    (C26_OnFile /\ C26_Requested >= 1) => exec.result = Out(C26_Promised(C26_Requested))

\* C26: one line was requested of a file of two lines, and one line of a
\* file has been returned
C26_Witness ==
    /\ C26_OnFile
    /\ exec.name = "tail_file"
    /\ C26_Requested = 1
    /\ Len(C26_Lines) = 2
    /\ exec.result = Out(<<"y">>)

\* the file an edit_file call names, and its content with the first
\* occurrence of old replaced by new taken as it is
C27_File == resolvePath(ArgPath(exec'.args)).path
C27_Literal(content, old, new) ==
    LET i == IndexOf(content, old) IN
    Slice(content, 0, i) \o new \o Slice(content, i + Len(old), Len(content))
C27_Edited(new) ==
    /\ IsFile(fs, C27_File)
    /\ Includes(fs[C27_File].content, ArgOldString(exec'.args))
    /\ fs' = Put(fs, C27_File,
                 FileNode(C27_Literal(fs[C27_File].content, ArgOldString(exec'.args), new)))
    /\ exec'.result = Out(<<"File edited: ">> \o PathText(ArgPath(exec'.args)))

\* C27 as stated: an edit_file call that succeeds has found old_string in the
\* file and leaves the file with exactly the first occurrence of old_string
\* replaced by new_string, character for character, everything else on the
\* file system being as it was; the result is the confirmation.  It fails for
\* a new_string that holds a "$" pattern of String.prototype.replace.
C27_EditLiteral ==
    [][(exec'.name = "edit_file" /\ exec'.result.hasOutput) =>
          C27_Edited(ArgNewString(exec'.args))]_vars

\* C27 for a new_string without "$": this much holds
C27_EditLiteralPlain ==
    [][(exec'.name = "edit_file" /\ exec'.result.hasOutput
        /\ \A i \in 1..Len(ArgNewString(exec'.args)) : ArgNewString(exec'.args)[i] # "$") =>
          C27_Edited(ArgNewString(exec'.args))]_vars

\* C27: the first of the two occurrences of old_string in a file has been
\* replaced and the second kept
C27_Witness ==
    /\ exec.name = "edit_file"
    /\ exec.result.hasOutput
    /\ ArgOldString(exec.args) = <<"o">>
    /\ fs[<<"proj", "a.txt">>] = FileNode(<<"f", "b", "o">>)

\* C28 (edit_file failures leave the file system unchanged): an edit_file
\* call on a path inside the project root that names no file answers with
\* the not-found error and creates nothing; one on a file that does not hold
\* old_string answers with the no-match error and leaves the file as it is;
\* and no edit_file call that answers with an error changes the file system.
C28_NotFound == Err(<<"File not found: ">> \o PathText(ArgPath(exec'.args)))
C28_NoMatch ==
    Err(<<"String not found in file: \"">>
        \o SubSeq(ArgOldString(exec'.args), 1, Min(50, Len(ArgOldString(exec'.args))))
        \o <<"...\"">>)
C28_FailuresChangeNothing ==
    [][(exec'.name = "edit_file") =>
          LET r == resolvePath(ArgPath(exec'.args)) IN
          /\ (r.ok /\ ~Exists(fs, r.path)) =>
                 /\ exec'.result = C28_NotFound
                 /\ fs' = fs
                 /\ ~Exists(fs', r.path)
          /\ (r.ok /\ IsFile(fs, r.path)
              /\ ~Includes(fs[r.path].content, ArgOldString(exec'.args))) =>
                 /\ exec'.result = C28_NoMatch
                 /\ fs' = fs
          /\ exec'.result.hasError => (fs' = fs /\ exec'.changed = {})
      ]_vars

\* C28: edit_file has answered with the no-match error on a file that holds
\* something else, and the file holds it still
C28_Witness ==
    /\ exec.name = "edit_file"
    /\ ArgPath(exec.args) = P(FALSE, <<"a.txt">>)
    /\ exec.result = Err(<<"String not found in file: \"", "z", "...\"">>)
    /\ exec.changed = {}
    /\ fs[<<"proj", "a.txt">>] = FileNode(<<"x", NL, "y">>)
    /\ ~Exists(fs, <<"proj", "d", "new.txt">>)

\* C29 (run_command failure is a result): a run_command call never leaves
\* the executor by an exception; when the command exits with code 0 the
\* result is an output; when it exits with another code or is killed at the
\* timeout the result is an error, which holds the captured stdout and stderr
\* when one of them is not empty and the failure message when both are.
C29_FailureIsResult ==
    (exec.name = "run_command") =>
        LET sh == ShellOutcome(ArgCommand(exec.args)) IN
        /\ ~IsThrown(exec.result)
        /\ exec.changed = {}
        /\ sh.status = "ok" => (exec.result.hasOutput /\ ~exec.result.hasError)
        /\ sh.status \in {"fail", "timeout"} =>
             /\ exec.result.hasError /\ ~exec.result.hasOutput
             /\ IF sh.stdout # <<>> \/ sh.stderr # <<>>
                THEN /\ Includes(exec.result.error, sh.stdout)
                     /\ Includes(exec.result.error, sh.stderr)
                ELSE Includes(exec.result.error, sh.message)

\* C29: a command killed at the timeout has given an error that holds what
\* it had written to stdout
C29_Witness ==
    /\ exec.name = "run_command"
    /\ ShellOutcome(ArgCommand(exec.args)).status = "timeout"
    /\ exec.result = Err(<<"Command failed", NL, "stdout:", NL, "y", NL, NL, "stderr:", NL>>)

\* the directory a list_dir call names, the nodes below a directory, and the
\* line that stands for a node in a listing of the directory q
C30_Dir == resolvePath(ArgPath(exec.args)).path
C30_Below(q) == {x \in DOMAIN fs : Len(x) > Len(q) /\ IsInside(q, x)}
C30_Line(q, x) ==
    SegsText(SubSeq(x, Len(q) + 1, Len(x))) \o (IF IsDir(fs, x) THEN <<"/">> ELSE <<>>)

\* C30 (list_dir): a list_dir call on a path inside the project root that
\* does not exist answers with the not-found error; on a directory it
\* answers with one line for each node it lists, the node's path relative to
\* the directory, with "/" after a directory: the direct children when
\* recursive is not set, every node below the directory when it is, each
\* directory then being followed at once by the lines of all the nodes below
\* it; a directory without entries gives "(empty directory)", never the
\* empty string.
C30_Listing ==
    (exec.name = "list_dir" /\ resolvePath(ArgPath(exec.args)).ok) =>
        LET q == C30_Dir
            listed == IF ArgRecursive(exec.args) THEN C30_Below(q) ELSE Children(fs, q)
            lines == SplitLines(exec.result.output)
        IN /\ ~Exists(fs, q) =>
                exec.result = Err(<<"Directory not found: ">> \o PathText(ArgPath(exec.args)))
           /\ IsDir(fs, q) =>
                /\ exec.result.hasOutput /\ ~exec.result.hasError
                /\ exec.result.output # <<>>
                /\ IF listed = {}
                   THEN exec.result.output = <<"(empty directory)">>
                   ELSE /\ Len(lines) = Cardinality(listed)
                        /\ {lines[i] : i \in 1..Len(lines)} = {C30_Line(q, x) : x \in listed}
                        /\ \A i \in 1..Len(lines) : \A x \in listed :
                             (lines[i] = C30_Line(q, x) /\ IsDir(fs, x)
                              /\ ArgRecursive(exec.args)) =>
                                /\ i + Cardinality(C30_Below(x)) <= Len(lines)
                                /\ {lines[j] : j \in (i + 1)..(i + Cardinality(C30_Below(x)))}
                                     = {C30_Line(q, y) : y \in C30_Below(x)}

\* C30: a recursive listing has given a directory, the file below it, and
\* after them the directory's sibling
C30_Witness ==
    /\ exec.name = "list_dir"
    /\ ArgPath(exec.args) = P(FALSE, <<".">>)
    /\ ArgRecursive(exec.args)
    /\ \E i \in 1..(Len(SplitLines(exec.result.output)) - 2) :
         /\ SplitLines(exec.result.output)[i] = <<"d", "/">>
         /\ SplitLines(exec.result.output)[i + 1] = <<"d", "/", "new.txt">>
         /\ SplitLines(exec.result.output)[i + 2] = <<"e", "/">>

\* C30: a directory without entries has been listed
C30_WitnessEmpty ==
    /\ exec.name = "list_dir"
    /\ ArgPath(exec.args) = P(FALSE, <<"e">>)
    /\ exec.result = Out(<<"(empty directory)">>)

\* the capability classes of the catalog
C31_Classes == {"read_file", "write_file", "list_dir", "run_command"}

\* C31 as stated: the permission store only ever holds records for the four
\* capability classes, and the loop never prompts for another key.  It fails
\* for a function call whose name is not in the catalog: its name is its
\* key.
C31_ClosedClasses ==
    /\ DOMAIN permissions \subseteq C31_Classes
    /\ gate.prompted => gate.key \in C31_Classes

\* C31 for the function calls that name a tool of the catalog: this much
\* holds
C31_CatalogClasses ==
    (gate.name \in ToolNames) => gate.key \in C31_Classes

\* C31: a tool of the catalog has been prompted for under its class
C31_Witness ==
    /\ gate.prompted
    /\ gate.name = "edit_file"
    /\ gate.key = "write_file"
    /\ permissions = setPermission(NoPermissions, "write_file", "allow")

\* the capability class the catalog gives each tool
C32_Class(t) ==
    CASE t \in {"read_file", "head_file", "tail_file"} -> "read_file"
      [] t \in {"write_file", "edit_file"} -> "write_file"
      [] t = "list_dir" -> "list_dir"
      [] t = "run_command" -> "run_command"

\* C32 (capability-class sharing): a function call that names a tool of the
\* catalog is prompted for exactly when the store does not allow the tool's
\* class, and is recorded under that class; and an always-allow grant makes
\* the store allow the tools of the class it was given for and changes
\* nothing for the tools of the other classes.
C32_ClassSharing ==
    [][ /\ (pc = "dispatch" /\ funcCalls[idx].name \in ToolNames) =>
              /\ (pc' = "prompt") <=> ~isAllowed(permissions, C32_Class(funcCalls[idx].name))
              /\ (pc' # "prompt") => (gate'.key = C32_Class(funcCalls[idx].name)
                                      /\ ~gate'.prompted)
        /\ (pc = "prompt" /\ funcCalls[idx].name \in ToolNames) =>
              /\ gate'.key = C32_Class(funcCalls[idx].name)
              /\ \A t \in ToolNames :
                    isAllowed(permissions', C32_Class(t)) <=>
                        \/ isAllowed(permissions, C32_Class(t))
                        \/ /\ gate'.decision.granted
                           /\ gate'.decision.alwaysAllow
                           /\ C32_Class(t) = C32_Class(funcCalls[idx].name)
      ]_vars

\* C32: an always-allow grant given for write_file lets the edit_file call
\* that follows it in the batch be dispatched, and the store allows no other
\* class
C32_Witness ==
    /\ pc = "dispatch"
    /\ idx = 2
    /\ funcCalls[2].name = "edit_file"
    /\ gate.idx = 1
    /\ gate.name = "write_file"
    /\ gate.prompted
    /\ gate.decision.granted /\ gate.decision.alwaysAllow
    /\ isAllowed(permissions, "write_file")
    /\ \A k \in {"read_file", "list_dir", "run_command"} : ~isAllowed(permissions, k)

\* C33 (resumeLastSession): with a session in the list the call makes the
\* last one current and returns it; with none it returns null and leaves the
\* current session as it was; in both cases the sessions and the history
\* file stay as they were.
C33_ResumeLast ==
    [][ HistoryResumeLastSession =>
          /\ sessions' = sessions
          /\ saved' = saved
          /\ IF Len(sessions) = 0
             THEN current' = current /\ outcome'.value = <<>>
             ELSE current' = Len(sessions) /\ outcome'.value = <<Len(sessions)>>
      ]_vars

\* C33: the call returned the second of two sessions, which is current and
\* still holds the message stored in it
C33_Witness ==
    /\ outcome = Resumed(2)
    /\ Len(sessions) = 2
    /\ current = 2
    /\ sessions[1].messages = <<>>
    /\ sessions[2].messages # <<>>

\* C33: the call returned null on an empty list
C33_WitnessNone ==
    /\ outcome = Resumed(0)
    /\ sessions = <<>>
    /\ current = 0

\* C35 as stated (settings.reset()): after a reset the store allows no
\* class and the selected model is the one selected before it.  It fails
\* when a model other than the default one was selected: reset() writes
\* DEFAULT_MODEL.
C35_ResetKeepsModel ==
    [][ SettingsReset =>
          /\ \A c \in SettingsKeys : ~isAllowed(permissions', c)
          /\ model' = model
      ]_vars

\* C35 for the permission records: after a reset the store allows no class;
\* this much holds
C35_ResetForgetsPermissions ==
    [][ SettingsReset => \A c \in SettingsKeys : ~isAllowed(permissions', c) ]_vars

\* C35: a model other than the default one is selected and a class is
\* allowed: the state a reset changes in both respects
C35_Selected ==
    /\ pc = "settings"
    /\ model = "gemini-2.5-flash"
    /\ isAllowed(permissions, "write_file")

\* a natural number of any size, as limbs with the least significant first
\* and no limb beyond the last one that is not zero
C34_Limb(a, k) == IF k <= Len(a) THEN a[k] ELSE 0

RECURSIVE C34_AddFrom(_, _, _, _)
C34_AddFrom(a, b, k, carry) ==
    IF k > Len(a) /\ k > Len(b)
    THEN IF carry = 0 THEN <<>> ELSE <<carry>>
    ELSE LET sum == C34_Limb(a, k) + C34_Limb(b, k) + carry
         IN  <<sum % LimbBase>> \o C34_AddFrom(a, b, k + 1, sum \div LimbBase)

C34_Add(a, b) == C34_AddFrom(a, b, 1, 0)

\* F(0) .. F(MaxN) in a table, F(k) at place k + 1: F(0) = 0, F(1) = 1,
\* F(k) = F(k-1) + F(k-2); the table is extended by a quarter at a time
RECURSIVE C34_Extend(_, _)
C34_Extend(t, upTo) ==
    IF Len(t) > upTo THEN t
    ELSE C34_Extend(Append(t, C34_Add(t[Len(t)], t[Len(t) - 1])), upTo)

C34_Table ==
    C34_Extend(C34_Extend(C34_Extend(C34_Extend(<< <<>>, <<1>> >>, MaxN \div 4),
                                     MaxN \div 2),
                          3 * (MaxN \div 4)),
               MaxN)

\* the long whose value is the natural number a, when a < 2^63
C34_FitsLong(a) ==
    /\ Len(a) <= LongLimbs
    /\ C34_Limb(a, LongLimbs) < LimbBase \div 2

C34_AsLong(a) == [k \in 1..LongLimbs |-> C34_Limb(a, k)]

\* what the claim says of a finished call
C34_Contract(c) ==
    IF c.n < 0 \/ c.n > 92
    THEN c.threw
    ELSE /\ ~c.threw
         /\ C34_FitsLong(C34_Table[c.n + 1])
         /\ c.value = C34_AsLong(C34_Table[c.n + 1])

\* C34 as stated (example project): fibonacci(n) returns F(n) as a long
\* for 0 <= n <= 92 and throws for n < 0 and for n > 92.  It fails for the
\* copy of the class that has no upper limit, which returns a number for
\* n > 92.
C34_Fibonacci ==
    fibCall.done => C34_Contract(fibCall)

\* C34 for src/main/java/com/example/Fibonacci.java alone: this much holds
C34_FibonacciJava ==
    (fibCall.done /\ fibCall.copy = "Fibonacci.java") => C34_Contract(fibCall)

\* C34 for the other copy up to 92: this much holds
C34_FibonacciUpTo92 ==
    (fibCall.done /\ fibCall.n <= 92) => C34_Contract(fibCall)

\* C34: fibonacci(92) has returned 7540113804746346429
C34_Witness92 ==
    /\ fibCall.done
    /\ fibCall.copy = "Fibonacci.java"
    /\ fibCall.n = 92
    /\ ~fibCall.threw
    /\ fibCall.value = <<53181, 25068, 56718, 26787>>

\* C34: the copy without the limit has returned a negative long for 93
C34_Witness93 ==
    /\ fibCall.done
    /\ fibCall.copy = "part_002"
    /\ fibCall.n = 93
    /\ ~fibCall.threw
    /\ fibCall.value = <<9986, 8735, 44354, 43343>>

\* C36 (a denial does not abort the batch): the step that takes a denial
\* runs no tool, leaves processMessage running with no result and no
\* exception, and moves to the next function call of the batch, or to the
\* next hop after the last one; and every function call the for loop
\* reaches, after a denial as before one, is decided in its turn and runs
\* when it is granted.
C36_DenialContinues ==
    [][ /\ (pc = "prompt" /\ ~gate'.decision.granted) =>
              /\ outcome' = outcome
              /\ exec' = exec
              /\ funcCalls' = funcCalls
              /\ hops' = hops
              /\ idx' = idx + 1
              /\ pc' = IF idx < Len(funcCalls) THEN "dispatch" ELSE "loop"
              /\ currentContents'[Len(currentContents')] = denialMessage(funcCalls[idx].name)
        /\ (pc \in {"dispatch", "prompt"} /\ pc' # "prompt") =>
              /\ gate'.idx = idx /\ gate'.hop = hops /\ gate'.msg = msgs
              /\ gate'.name = funcCalls[idx].name
              /\ (gate'.hasPermission \/ gate'.decision.granted) =>
                    /\ exec'.idx = idx /\ exec'.hop = hops /\ exec'.msg = msgs
                    /\ exec'.name = funcCalls[idx].name
      ]_vars

\* C36: the first function call of a batch was denied and the second one,
\* granted, has run; the hop has ended and the loop goes on
C36_Witness ==
    /\ pc = "loop"
    /\ outcome = NoOutcome
    /\ Len(funcCalls) = 2
    /\ gate.idx = 2 /\ gate.prompted /\ gate.decision.granted
    /\ exec.idx = 2 /\ exec.hop = gate.hop /\ exec.msg = gate.msg
    /\ exec.name = "run_command"
    /\ Len(currentContents) >= 2
    /\ currentContents[Len(currentContents) - 1] = denialMessage("bogus")
    /\ currentContents[Len(currentContents)] = toolResponse("run_command", exec.result)

\* C37 (working copy and stored history agree): while a request of the
\* agentic loop is awaited with a session current, the turns it sent, the
\* loop's working conversation, are the current session's stored messages.
C37_CopyAgrees ==
    (pc = "await" /\ current # 0) =>
        currentContents = getMessages(sessions, current)

\* C37: a request is awaited after a compaction stored the working
\* conversation in the session and a later hop ran a tool
C37_Witness ==
    /\ pc = "await"
    /\ current # 0
    /\ aliased
    /\ hops >= 3
    /\ exec.hop = hops - 1
    /\ Len(currentContents) >= 2
    /\ currentContents = getMessages(sessions, current)

\* C37: a request is awaited right after a summary replaced tool turns
C37_WitnessSummary ==
    /\ pc = "await"
    /\ current # 0
    /\ \E i \in 1..Len(currentContents) : \E s \in Summaries :
          currentContents[i] = summaryContent(s)
    /\ currentContents = getMessages(sessions, current)

\* the user's turn of message k
C38_UserTurn(k) == TextTurn("user", <<"message ", ToString(k)>>)

\* C38 (no current session): while no session is current getMessages
\* answers the empty sequence, and no step but the creation of a session
\* changes a session or the history file: addMessage and
\* setCurrentSessionMessages, called by processMessage and the loop, change
\* nothing.  A processMessage started then begins with an empty conversation
\* and no request it sends holds a user's turn.
C38_NoSession ==
    /\ [](current = 0 => getMessages(sessions, current) = <<>>)
    /\ []((current = 0 /\ pc = "await") =>
             \A i \in 1..Len(currentContents) : \A k \in 1..MaxMessages :
                 currentContents[i] # C38_UserTurn(k))
    /\ [][ /\ (current = 0 /\ current' = 0) => (sessions' = sessions /\ saved' = saved)
           /\ (current = 0 /\ pc = "idle" /\ pc' = "loop") => currentContents' = <<>>
         ]_vars

\* C38: after clearCurrentSession a message is being processed: a tool has
\* run for it and the second request is awaited, while the session that was
\* current and the history file hold the first message only
C38_Witness ==
    /\ current = 0
    /\ pc = "await"
    /\ msgs = 2
    /\ hops = 2
    /\ exec.msg = 2
    /\ Len(currentContents) >= 1
    /\ Len(sessions) = 1
    /\ Len(sessions[1].messages) >= 1
    /\ sessions[1].messages[1] = C38_UserTurn(1)
    /\ \A i \in 1..Len(sessions[1].messages) : sessions[1].messages[i] # C38_UserTurn(2)
    /\ saved = sessions

====
